---- MODULE Spec2Model ----
(***************************************************************************)
(* Model of server/assets/voice/wake_listener.py: the frame source         *)
(* (RestartableFileReader), the capture state machine (SpeechProcessor),   *)
(* the control listener (stdin_monitor) and the main frame loop.           *)
(*                                                                         *)
(* Time.  The code only ever compares the wall clock with a timestamp it   *)
(* stored earlier, so every timestamp is kept relative to the present:     *)
(* time.time() is 0 and a stored timestamp t <= 0 lies -t milliseconds in  *)
(* the past.  When dt milliseconds elapse every stored timestamp moves dt  *)
(* into the past; a timestamp older than Horizon stays at -Horizon, which  *)
(* no comparison of the code can tell from any older one.                  *)
(*                                                                         *)
(* Bytes.  A byte string read from the audio file is the list of the file  *)
(* extents <<from, to>> it was read from, adjacent extents merged.         *)
(***************************************************************************)
EXTENDS Integers, Sequences, FiniteSets, TLC

\* ---------------------------------------------------------------- constants

FRAME_MS == 80
SR == 16000
SAMPLE_BYTES == 2
FRAME_BYTES == (SR * FRAME_MS * SAMPLE_BYTES) \div 1000
WAV_HEADER == 44
MAX_AUDIO_SECONDS == 10
SILENCE_TIMEOUT_MS == 1000
AUDIO_BUFFER_SIZE == SR * MAX_AUDIO_SECONDS * SAMPLE_BYTES

\* self.cooldown_period = 1.0 (seconds), here in milliseconds
cooldown_period == 1000
\* --threshold, default 0.5; scores are in thousandths
threshold == 500
\* time.sleep(0.03) of read_frame, in milliseconds
SLEEP_MS == 30
\* deque(maxlen=50) of recent_features
FEATURES_MAXLEN == 50
\* the cadence of audio_debug: debug_counter % 12
DEBUG_EVERY == 12

\* ListenerState
WAKE_WORD_DETECTION == "wake_detection"
LISTENING_FOR_SPEECH == "listening"
PROCESSING_SPEECH == "processing"

\* ------------------------------------------------------------------- bounds

\* The audio file holds at most this many frames of data after its header.
MaxFileFrames == 1

\* Elapsed times (ms) between two steps of the main loop: none, just inside
\* the cooldown, exactly the cooldown / silence timeout.  Longer times are the
\* sums of these.
TimeSteps == {0, cooldown_period - 1, SILENCE_TIMEOUT_MS}
\* Durations (ms) of a transcription call.
TranscribeTimes == {0, cooldown_period}
\* Time (ms) between the two is_in_cooldown() calls of one loop iteration.
RaceTimes == {0, cooldown_period}
\* Sizes (bytes) of the chunks the external writer appends.
ChunkSizes == {FRAME_BYTES \div 2, FRAME_BYTES}
\* Wake-word scores (thousandths) and the labels of the loaded models, in the
\* iteration order of the mapping predict() returns.
Scores == {threshold - 1, threshold, threshold + 1}
Labels == <<"sumika", "alexa">>
\* Outcomes of whisper_model.transcribe.
TranscribeOutcomes == {"ok", "raise"}

\* ------------------------------------------------------------------ helpers

None == <<>>
Some(x) == <<x>>
Val(o) == o[1]

Max(a, b) == IF a >= b THEN a ELSE b
Min(a, b) == IF a <= b THEN a ELSE b

\* time.time(): the present
time == 0
Horizon == SILENCE_TIMEOUT_MS + FRAME_MS + 1

\* A stored timestamp after dt more milliseconds have elapsed, kept up to an
\* age of h.
ElapseTo(t, dt, h) == IF t = None THEN None ELSE Some(Max(Val(t) - dt, 0 - h))
Elapse(t, dt) == ElapseTo(t, dt, Horizon)

\* Byte strings as extent lists.
RECURSIVE BLen(_)
BLen(b) == IF b = <<>> THEN 0 ELSE (b[1][2] - b[1][1]) + BLen(Tail(b))

Concat(a, b) ==
    IF a = <<>> THEN b
    ELSE IF b = <<>> THEN a
    ELSE IF a[Len(a)][2] = b[1][1]
         THEN SubSeq(a, 1, Len(a) - 1) \o <<(<<a[Len(a)][1], b[1][2]>>)>> \o Tail(b)
         ELSE a \o b

\* b[:n]
RECURSIVE BTake(_, _)
BTake(b, n) ==
    IF n <= 0 \/ b = <<>> THEN <<>>
    ELSE LET l == b[1][2] - b[1][1]
         IN IF l <= n THEN <<b[1]>> \o BTake(Tail(b), n - l)
            ELSE <<(<<b[1][1], b[1][1] + n>>)>>

\* b[n:]
RECURSIVE BDrop(_, _)
BDrop(b, n) ==
    IF b = <<>> THEN <<>>
    ELSE IF n <= 0 THEN b
    ELSE LET l == b[1][2] - b[1][1]
         IN IF l <= n THEN BDrop(Tail(b), n - l)
            ELSE <<(<<b[1][1] + n, b[1][2]>>)>> \o Tail(b)

\* ------------------------------------------------------------------- events

Event(ty) == [type |-> ty]
RestartInfo == [type |-> "info", message |-> "File reader restarted"]
ResumeEvent == [type |-> "listening_start", message |-> "Resumed listening after file restart"]
CooldownInfo == [type |-> "info", message |-> "Starting cooldown"]
WakeEvent(p) == [type |-> "wakeword", label |-> p.label, score |-> p.score]

Types(evs) == [i \in DOMAIN evs |-> evs[i].type]
Count(evs, ty) == Cardinality({i \in DOMAIN evs : evs[i].type = ty})
Has(evs, ty) == \E i \in DOMAIN evs : evs[i].type = ty

VARIABLES
    file_size,          \* size in bytes of the audio file (grown by the writer)
    reader,             \* RestartableFileReader: f (cursor), leftover, restart_requested
    speech_processor,   \* SpeechProcessor: its attributes
    main_pc,            \* main thread: "read_frame" | "open_file" | "reset" | "dead"
    stdin_pc,           \* stdin_monitor thread: "readline" | "done"
    out,                \* the events the last main-loop step wrote to stdout
    obs,                \* history: what the last main-loop step did
    hist                \* history: running facts the claims are stated with

vars == <<file_size, reader, speech_processor, main_pc, stdin_pc, out, obs, hist>>

\* ---------------------------------------------------------- SpeechProcessor

\* An attribute created on first use (hasattr): absent, None or a value.
Absent == [attr |-> "absent", v |-> 0]
NoneAttr == [attr |-> "none", v |-> 0]
Attr(x) == [attr |-> "value", v |-> x]

\* collections.deque(maxlen=n) holding frames, by the number of frames it holds
\* and the number it has dropped from its left end since it was last cleared.
deque == [len |-> 0, evicted |-> 0]
\* Fault: the frame judged without being appended to the buffer.
deque_append_drops(q, n) == q

deque_append(q, n) ==
    IF q.len >= n THEN [len |-> q.len, evicted |-> q.evicted + 1]
    ELSE [len |-> q.len + 1, evicted |-> q.evicted]

maxlen == AUDIO_BUFFER_SIZE \div FRAME_BYTES

SpeechProcessor_init ==
    [ state |-> WAKE_WORD_DETECTION,
      audio_buffer |-> deque,
      silence_start_time |-> None,
      last_speech_time |-> None,
      last_transcription_time |-> None,
      recent_features |-> Absent,
      debug_counter |-> Absent,
      cooldown_logged |-> Absent ]

\* Every timestamp of the processor after dt more milliseconds.  Nothing ever
\* reads last_speech_time: it is kept as "now" (0) or "earlier" (-1).
Advance(self, dt) ==
    [self EXCEPT !.silence_start_time = Elapse(@, dt),
                 !.last_speech_time = ElapseTo(@, dt, 1),
                 !.last_transcription_time = Elapse(@, dt)]

\* Fault: the cooldown compared with <= instead of <.
is_in_cooldown_inclusive(self) ==
    IF self.last_transcription_time = None THEN FALSE
    ELSE (time - Val(self.last_transcription_time)) <= cooldown_period

\* Fault: the cooldown never reported.
is_in_cooldown_never(self) == FALSE

is_in_cooldown(self) ==
    IF self.last_transcription_time = None THEN FALSE
    ELSE (time - Val(self.last_transcription_time)) < cooldown_period

\* round(len(audio_data) / SR, 2), in hundredths of a second
\* Fault: the length of the audio taken in bytes instead of samples.
audio_duration_of_bytes(self) ==
    LET n == self.audio_buffer.len * FRAME_BYTES
    IN (2 * 100 * n + SR) \div (2 * SR)

audio_duration(self) ==
    LET n == self.audio_buffer.len * (FRAME_BYTES \div SAMPLE_BYTES)
    IN (2 * 100 * n + SR) \div (2 * SR)

\* Fault: no except clause, the fault of the engine leaves the function.
try_transcribe_propagates(self, tr) ==
    IF tr = "ok"
    THEN [result |-> [type |-> "transcription", audio_duration |-> audio_duration(self)],
          raised |-> FALSE]
    ELSE [result |-> [type |-> "error", message |-> "Transcription failed"],
          raised |-> TRUE]

\* The try/except around whisper_model.transcribe (lines 221-251): the result
\* event, and whether a fault leaves process_buffered_audio.
try_transcribe(self, tr) ==
    IF tr = "ok"
    THEN [result |-> [type |-> "transcription", audio_duration |-> audio_duration(self)],
          raised |-> FALSE]
    ELSE [result |-> [type |-> "error", message |-> "Transcription failed"],
          raised |-> FALSE]

\* Fault: the buffer kept at the end of the utterance.
buffer_clear_keeps(q) == q

\* line 255: self.audio_buffer.clear()
buffer_clear(q) == deque

\* tr: the outcome of whisper_model.transcribe, d: the time the call takes.
\* A fault that leaves the function leaves the state as it was at the call.
process_buffered_audio(self, tr, d) ==
    IF self.audio_buffer.len = 0
    THEN [self |-> [self EXCEPT !.state = WAKE_WORD_DETECTION],
          out |-> <<>>, result |-> None, raised |-> FALSE, transcribed |-> "none",
          invoked |-> TRUE]
    ELSE LET s1 == Advance([self EXCEPT !.state = PROCESSING_SPEECH], d)
             t == try_transcribe(self, tr)
             s2 == [s1 EXCEPT
                      !.state = WAKE_WORD_DETECTION,
                      !.audio_buffer = buffer_clear(@),
                      !.last_transcription_time = Some(time),
                      !.recent_features = IF @.attr # "absent" THEN Attr(0) ELSE NoneAttr,
                      !.debug_counter = IF @.attr # "absent" THEN Attr(0) ELSE NoneAttr,
                      !.cooldown_logged = Attr(0)]     \* False
         IN IF t.raised
            THEN [self |-> s1, out |-> <<>>, result |-> None, raised |-> TRUE,
                  transcribed |-> tr, invoked |-> TRUE]
            ELSE [self |-> s2, out |-> <<CooldownInfo>>, result |-> Some(t.result),
                  raised |-> FALSE, transcribed |-> tr, invoked |-> TRUE]

\* Fault: the silence timer of the previous utterance kept.
start_listening_keeps_silence(self) ==
    [self |-> [self EXCEPT !.state = LISTENING_FOR_SPEECH,
                           !.audio_buffer = deque,
                           !.last_speech_time = Some(time)],
     event |-> Event("listening_start")]

start_listening(self) ==
    [self |-> [self EXCEPT !.state = LISTENING_FOR_SPEECH,
                           !.audio_buffer = deque,
                           !.silence_start_time = None,
                           !.last_speech_time = Some(time)],
     event |-> Event("listening_start")]

\* Fault: the timeout compared with >= instead of >.
silence_timed_out_inclusive(self) ==
    (time - Val(self.silence_start_time)) >= SILENCE_TIMEOUT_MS

\* line 165: (current_time - self.silence_start_time) * 1000 > SILENCE_TIMEOUT_MS
silence_timed_out(self) ==
    (time - Val(self.silence_start_time)) > SILENCE_TIMEOUT_MS

\* Fault: the safety margin left out, the buffer compared with its capacity.
buffer_full_no_margin(self) == self.audio_buffer.len >= maxlen

\* Fault: the safety margin added instead of subtracted.
buffer_full_late(self) == self.audio_buffer.len >= maxlen + 10

\* line 180: len(self.audio_buffer) >= self.audio_buffer.maxlen - 10
buffer_full(self) == self.audio_buffer.len >= maxlen - 10

\* Fault: the silence timer left running by a frame that is not silent.
speech_branch_keeps_silence(self) == [self EXCEPT !.last_speech_time = Some(time)]

\* lines 174-177: the else branch of "if is_silent"
speech_branch(self) ==
    [self EXCEPT !.silence_start_time = None, !.last_speech_time = Some(time)]

\* Fault: the event printed on the frame after the twelfth.
debug_due_late(self) == self.debug_counter.v % DEBUG_EVERY = 1

\* line 154: if self.debug_counter % 12 == 0
debug_due(self) == self.debug_counter.v % DEBUG_EVERY = 0

\* The frame is appended and judged only in LISTENING_FOR_SPEECH.  is_silent is
\* the verdict the feature computation reaches for the frame (it depends on
\* the samples and on the feature history, which hold any values the audio
\* gives them); tr and d are handed to process_buffered_audio.
add_audio_frame(self, is_silent, tr, d) ==
    IF self.state = LISTENING_FOR_SPEECH
    THEN LET s1 == [self EXCEPT
                      !.audio_buffer = deque_append(@, maxlen),
                      !.recent_features =
                          Attr(Min((IF @.attr = "value" THEN @.v ELSE 0) + 1, FEATURES_MAXLEN)),
                      !.debug_counter = Attr((IF @.attr = "absent" THEN 0 ELSE @.v) + 1)]
             debug == IF debug_due(s1)
                      THEN <<Event("audio_debug")>> ELSE <<>>
             s2 == IF is_silent
                   THEN IF s1.silence_start_time = None
                        THEN [s1 EXCEPT !.silence_start_time = Some(time)]
                        ELSE s1
                   ELSE speech_branch(s1)
         IN IF is_silent /\ s1.silence_start_time # None /\ silence_timed_out(s1)
            THEN LET p == process_buffered_audio(s1, tr, d)
                 IN [p EXCEPT !.out = debug \o <<Event("silence_detected")>> \o @]
            ELSE IF buffer_full(s2)
            THEN LET p == process_buffered_audio(s2, tr, d)
                 IN [p EXCEPT !.out = debug \o <<Event("max_buffer_reached")>> \o @]
            ELSE [self |-> s2, out |-> debug, result |-> None, raised |-> FALSE,
                  transcribed |-> "none", invoked |-> FALSE]
    ELSE [self |-> self, out |-> <<>>, result |-> None, raised |-> FALSE,
          transcribed |-> "none", invoked |-> FALSE]

\* --------------------------------------------------------------- main loop

\* The mapping predict() returns, as the list of its items in iteration order.
FrameScores == { [i \in DOMAIN Labels |-> [label |-> Labels[i], score |-> sc[i]]] :
                 sc \in [DOMAIN Labels -> Scores] }

\* Fault: the threshold compared with > instead of >=.
triggered_strict(frame_scores) == SelectSeq(frame_scores, LAMBDA p : p.score > threshold)

\* line 390: the items whose score meets the threshold, in iteration order
triggered(frame_scores) == SelectSeq(frame_scores, LAMBDA p : p.score >= threshold)

\* Fault: the elif left out, no frame fed to the model during the cooldown.
discard_branch_no_predict(self, race) ==
    [self |-> Advance(self, race), predicted |-> 0, late |-> race]

\* lines 405-408: the elif of the loop, reached in WAKE_WORD_DETECTION when the
\* if found the cooldown active, race ms after that call of is_in_cooldown().
discard_branch(self, race) ==
    LET s2 == Advance(self, race)
    IN [self |-> s2, predicted |-> IF is_in_cooldown(s2) THEN 1 ELSE 0, late |-> race]

\* Fault: the loop over the triggered items without its break.
trigger_events_no_break(event, trig) ==
    [i \in 1 .. 2 * Len(trig) |-> IF i % 2 = 1 THEN event ELSE WakeEvent(trig[i \div 2])]

\* lines 391-404: the loop over the triggered items prints the listening_start
\* event and the wakeword event of the first item, and breaks.
trigger_events(event, trig) == <<event, WakeEvent(trig[1])>>

\* Fault: the result printed ahead of what add_audio_frame printed.
print_result_first(a) == a.result \o a.out

\* lines 370-372: add_audio_frame has printed its events (the cooldown info of
\* line 269 among them) when it returns, and main prints the result after.
print_result(a) == a.out \o a.result

\* One iteration of the loop of main() on the frame read_frame returned.
\* race: the time between the is_in_cooldown() call of the if and that of the
\* elif.  predicted counts the calls of wake_model.predict, evaluated tells
\* whether the scores were compared with the threshold, late is the time that
\* passed after add_audio_frame returned.
main_iteration(self, frame_scores, is_silent, tr, d, race) ==
    LET a == add_audio_frame(self, is_silent, tr, d)
        printed == print_result(a)
        s1 == a.self
        base == [self |-> s1, out |-> printed, predicted |-> 0, evaluated |-> FALSE,
                 late |-> 0,
                 raised |-> a.raised, transcribed |-> a.transcribed,
                 invoked |-> a.invoked]
    IN IF a.raised THEN base
       ELSE IF s1.state = WAKE_WORD_DETECTION /\ ~is_in_cooldown(s1)
       THEN IF triggered(frame_scores) # <<>>
            THEN LET l == start_listening(s1)
                 IN [base EXCEPT !.self = l.self,
                                 !.out = @ \o trigger_events(l.event, triggered(frame_scores)),
                                 !.predicted = 1, !.evaluated = TRUE]
            ELSE [base EXCEPT !.predicted = 1, !.evaluated = TRUE]
       ELSE IF s1.state = WAKE_WORD_DETECTION
       THEN LET e == discard_branch(s1, race)
            IN [base EXCEPT !.self = e.self, !.predicted = e.predicted, !.late = e.late]
       ELSE base

\* ---------------------------------------------------- RestartableFileReader

RestartableFileReader_init ==
    [f |-> WAV_HEADER, leftover |-> <<>>, restart_requested |-> FALSE]

\* Fault: the bytes of a partially read frame kept over the reopening.
open_file_seek_keeps_leftover(self) == [self EXCEPT !.f = WAV_HEADER]

\* open_file, lines 45-49: close, open, seek(WAV_HEADER), leftover = b''
open_file_seek(self) == [self EXCEPT !.f = WAV_HEADER, !.leftover = <<>>]

\* open_file, line 50: restart_requested = False
open_file_reset(self) == [self EXCEPT !.restart_requested = FALSE]

open_file(self) == open_file_reset(open_file_seek(self))

\* Fault: the request also discards the bytes held.
request_restart_clears_leftover(self) == [self EXCEPT !.restart_requested = TRUE, !.leftover = <<>>]

request_restart(self) == [self EXCEPT !.restart_requested = TRUE]

\* self.f.read(n) on the unbuffered file of the given size: the bytes from the
\* cursor on, at most n of them.
f_read(self, size, n) ==
    IF self.f >= size \/ n <= 0 THEN <<>>
    ELSE <<(<<self.f, Min(self.f + n, size)>>)>>

\* Fault: a short read replaces the bytes held instead of joining them.
read_frame_drops_leftover(self, size) ==
    LET chunk == f_read(self, size, FRAME_BYTES - BLen(self.leftover))
        s1 == [self EXCEPT !.f = @ + BLen(chunk)]
        buf == Concat(self.leftover, chunk)
    IN IF chunk = <<>>
       THEN [self |-> s1, frame |-> None, slept |-> TRUE]
       ELSE IF BLen(buf) < FRAME_BYTES
       THEN [self |-> [s1 EXCEPT !.leftover = chunk], frame |-> None, slept |-> FALSE]
       ELSE [self |-> [s1 EXCEPT !.leftover = BDrop(buf, FRAME_BYTES)],
             frame |-> Some(BTake(buf, FRAME_BYTES)), slept |-> FALSE]

\* read_frame when no restart is requested (lines 75-87).
read_frame(self, size) ==
    LET chunk == f_read(self, size, FRAME_BYTES - BLen(self.leftover))
        s1 == [self EXCEPT !.f = @ + BLen(chunk)]
        buf == Concat(self.leftover, chunk)
    IN IF chunk = <<>>
       THEN [self |-> s1, frame |-> None, slept |-> TRUE]
       ELSE IF BLen(buf) < FRAME_BYTES
       THEN [self |-> [s1 EXCEPT !.leftover = buf], frame |-> None, slept |-> FALSE]
       ELSE [self |-> [s1 EXCEPT !.leftover = BDrop(buf, FRAME_BYTES)],
             frame |-> Some(BTake(buf, FRAME_BYTES)), slept |-> FALSE]

\* ------------------------------------------------------------ stdin_monitor

Whitespace == {" ", "\t", "\n", "\r"}

\* str.strip() on a line given as the list of its characters
RECURSIVE lstrip(_)
lstrip(l) == IF l # <<>> /\ l[1] \in Whitespace THEN lstrip(Tail(l)) ELSE l
RECURSIVE rstrip(_)
rstrip(l) ==
    IF l # <<>> /\ l[Len(l)] \in Whitespace THEN rstrip(SubSeq(l, 1, Len(l) - 1)) ELSE l
strip(l) == rstrip(lstrip(l))

RESTART == <<"R", "E", "S", "T", "A", "R", "T">>
\* The lines the control channel delivers (each ends with its newline).
Lines == { RESTART \o <<"\n">>,
           RESTART,
           <<"R", "E", "S", "T", " ", "A", "R", "T", "\n">>,
           <<" ">> \o RESTART \o <<" ", "\r", "\n">>,
           <<"r", "e", "s", "t", "a", "r", "t", "\n">>,
           RESTART \o <<" ", "n", "o", "w", "\n">>,
           <<"\n">> }

\* ------------------------------------------------------------------ history

\* obs: the last step of the main loop.
\*   step        "init", "restart", "open_file", "restarted", "empty", "short"
\*               or "frame"
\*   samples     the frame the loop body ran on (None when none was read)
\*   fresh       hist.opened when the frame was read
\*   listening   the state was LISTENING_FOR_SPEECH when the frame came in
\*   is_silent   the verdict on the frame (when listening)
\*   run         when the frame is silent and continues a run of silent
\*               frames: the time the run's first frame was processed
\*   len_before  the length of audio_buffer when the frame came in
\*   since_eou   when add_audio_frame returned: the time the last
\*               end-of-utterance transcription had completed (None: never)
\*   invoked, transcribed, predicted, evaluated, late: as main_iteration says
\*   scores      the scores predict() gave, when they were evaluated
\*   dropped     after a restart: the calls of request_restart made while the
\*               file was being reopened, which the reset of the flag wiped out
\*   line        step "line" (a step of stdin_monitor, observed only in
\*               SpecControl): the line readline() returned
\*   broke       the frame is not silent and comes after a silent frame of
\*               the same listening session
NoObs(step) ==
    [step |-> step, samples |-> None, fresh |-> "read", listening |-> FALSE,
     is_silent |-> FALSE, run |-> None, len_before |-> 0, since_eou |-> None,
     invoked |-> FALSE, transcribed |-> "none", predicted |-> 0,
     evaluated |-> FALSE, late |-> 0, scores |-> <<>>, dropped |-> 0,
     line |-> None, broke |-> FALSE]

\* hist: running facts.
\*   run_start   the time the first frame of the current run of consecutive
\*               silent frames of the listening session was processed
\*   eou_at      the time the last end-of-utterance transcription completed
\*   requests    the calls of request_restart since the last
\*               "File reader restarted" event, counted up to 2
\*   opened      "start": the file was opened by __init__ and no frame read
\*               since; "restart": it was reopened by a restart and no frame
\*               read since; "read": a frame was read since it was opened
\*   frames      the number of frames read_frame returned since the file was
\*               last opened
hist_init == [run_start |-> None, eou_at |-> None, requests |-> 0, opened |-> "start",
              frames |-> 0]

\* ------------------------------------------------------------------ actions

Init ==
    /\ file_size = WAV_HEADER
    /\ reader = open_file(RestartableFileReader_init)
    /\ speech_processor = SpeechProcessor_init
    /\ main_pc = "read_frame"
    /\ stdin_pc = "readline"
    /\ out = <<>>
    /\ obs = NoObs("init")
    /\ hist = hist_init

\* The external writer appends a chunk of audio to the file.
WriterAppend(c) ==
    /\ file_size + c <= WAV_HEADER + MaxFileFrames * FRAME_BYTES
    /\ file_size' = file_size + c
    /\ UNCHANGED <<reader, speech_processor, main_pc, stdin_pc, out, obs, hist>>

\* Fault: the line compared without regard to case.
is_restart_command_any_case(line) ==
    strip(line) \in {RESTART, <<"r", "e", "s", "t", "a", "r", "t">>}

\* lines 298-300: line = line.strip(); if line == "RESTART"
is_restart_command(line) == strip(line) = RESTART

\* stdin_monitor, lines 294-302: readline() returned a line.
stdin_monitor_line(line) ==
    /\ stdin_pc = "readline"
    /\ IF is_restart_command(line)
       THEN /\ reader' = request_restart(reader)
            /\ hist' = [hist EXCEPT !.requests = Min(@ + 1, 2)]
       ELSE UNCHANGED <<reader, hist>>
    /\ UNCHANGED <<file_size, speech_processor, main_pc, stdin_pc, out>>

\* stdin_monitor: readline() returned a line.
StdinLine(line) == stdin_monitor_line(line) /\ UNCHANGED obs

\* The same step with the line it read observed.
ControlLine(line) ==
    stdin_monitor_line(line) /\ obs' = [NoObs("line") EXCEPT !.line = Some(line)]

\* Fault: the handler of a read fault ends the listener.
stdin_monitor_fault_ends == "done"
\* lines 303-305: except Exception: print to stderr, time.sleep(1), and the
\* while loop goes on to the next readline().
stdin_monitor_fault == "readline"

\* stdin_monitor: readline() returned '' (end of input): break.
StdinEOF ==
    /\ stdin_pc = "readline"
    /\ stdin_pc' = "done"
    /\ UNCHANGED <<file_size, reader, speech_processor, main_pc, out, obs, hist>>

\* stdin_monitor: readline() raised: the fault is logged to stderr and the
\* loop goes on after time.sleep(1).
StdinError ==
    /\ stdin_pc = "readline"
    /\ stdin_pc' = stdin_monitor_fault
    /\ UNCHANGED <<file_size, reader, speech_processor, main_pc, out, obs, hist>>

\* read_frame, lines 57-63: the flag is seen set and the info event printed.
ReadFrameRestart ==
    /\ main_pc = "read_frame"
    /\ reader.restart_requested
    /\ main_pc' = "open_file"
    /\ out' = <<RestartInfo>>
    /\ obs' = NoObs("restart")
    /\ hist' = [hist EXCEPT !.requests = 0]
    /\ UNCHANGED <<file_size, reader, speech_processor, stdin_pc>>

\* read_frame, line 64, open_file lines 45-49: the file is reopened.
ReadFrameOpenFile ==
    /\ main_pc = "open_file"
    /\ reader' = open_file_seek(reader)
    /\ main_pc' = "reset"
    /\ obs' = NoObs("open_file")
    /\ hist' = [hist EXCEPT !.opened = "restart", !.frames = 0]
    /\ UNCHANGED <<file_size, speech_processor, stdin_pc, out>>

\* Fault: the restart also abandons the utterance being captured.
ReadFrameReset_abandons ==
    /\ main_pc = "reset"
    /\ reader' = open_file_reset(reader)
    /\ main_pc' = "read_frame"
    /\ out' = out \o <<ResumeEvent>>
    /\ obs' = [NoObs("restarted") EXCEPT !.dropped = hist.requests]
    /\ hist' = [hist EXCEPT !.requests = 0]
    /\ speech_processor' = [speech_processor EXCEPT !.state = WAKE_WORD_DETECTION,
                                                    !.audio_buffer = deque]
    /\ UNCHANGED <<file_size, stdin_pc>>

\* open_file line 50 and read_frame lines 66-73: the flag is reset, the
\* listening_start event printed and None returned.
ReadFrameReset ==
    /\ main_pc = "reset"
    /\ reader' = open_file_reset(reader)
    /\ main_pc' = "read_frame"
    /\ out' = out \o <<ResumeEvent>>
    /\ obs' = [NoObs("restarted") EXCEPT !.dropped = hist.requests]
    /\ hist' = [hist EXCEPT !.requests = 0]
    /\ UNCHANGED <<file_size, speech_processor, stdin_pc>>

SleepTimes == {t \in TimeSteps : t >= SLEEP_MS}

\* read_frame, lines 75-78: nothing to read; time.sleep(0.03) takes sleep ms.
ReadFrameEmpty(sleep) ==
    /\ main_pc = "read_frame"
    /\ ~reader.restart_requested
    /\ \E r \in {read_frame(reader, file_size)} :
          /\ r.frame = None /\ r.slept
          /\ reader' = r.self
    /\ speech_processor' = Advance(speech_processor, sleep)
    /\ hist' = [hist EXCEPT !.run_start = Elapse(@, sleep), !.eou_at = Elapse(@, sleep)]
    /\ out' = <<>>
    /\ obs' = NoObs("empty")
    /\ UNCHANGED <<file_size, main_pc, stdin_pc>>

\* read_frame, lines 75-83: a short read is kept in leftover.
ReadFrameShort ==
    /\ main_pc = "read_frame"
    /\ ~reader.restart_requested
    /\ \E r \in {read_frame(reader, file_size)} :
          /\ r.frame = None /\ ~r.slept
          /\ reader' = r.self
    /\ out' = <<>>
    /\ obs' = NoObs("short")
    /\ UNCHANGED <<file_size, speech_processor, main_pc, stdin_pc, hist>>

\* read_frame, line 75: self.f.read raises (OSError). Neither read_frame nor
\* tail_wav_bytes (lines 279-284) nor the loop of main() (line 368) catches
\* it: the exception leaves the reader as it was and ends the main thread.
ReadFrameError ==
    /\ main_pc = "read_frame"
    /\ ~reader.restart_requested
    /\ main_pc' = "dead"
    /\ out' = <<>>
    /\ obs' = NoObs("read_error")
    /\ UNCHANGED <<file_size, reader, speech_processor, stdin_pc, hist>>

\* read_frame returns a frame and the body of the loop of main() runs on it,
\* dt ms after the previous step of the main loop.
MainLoopFrame(dt, frame_scores, is_silent, tr, d, race) ==
    /\ main_pc = "read_frame"
    /\ ~reader.restart_requested
    /\ \E r \in {read_frame(reader, file_size)} :
       \E sp \in {Advance(speech_processor, dt)} :
       \E it \in {main_iteration(sp, frame_scores, is_silent, tr, d, race)} :
       \E h \in {[listening |-> sp.state = LISTENING_FOR_SPEECH,
                  run |-> Elapse(hist.run_start, dt),
                  eou |-> IF it.transcribed # "none" THEN Some(time)
                          ELSE Elapse(hist.eou_at, dt)]} :
          /\ r.frame # None
          /\ reader' = r.self
          /\ speech_processor' = it.self
          /\ main_pc' = IF it.raised THEN "dead" ELSE "read_frame"
          /\ out' = it.out
          /\ obs' = [step |-> "frame", samples |-> r.frame, fresh |-> hist.opened,
                     listening |-> h.listening,
                     is_silent |-> h.listening /\ is_silent,
                     run |-> IF h.listening /\ is_silent THEN h.run ELSE None,
                     len_before |-> sp.audio_buffer.len,
                     since_eou |-> h.eou,
                     invoked |-> it.invoked, transcribed |-> it.transcribed,
                     predicted |-> it.predicted, evaluated |-> it.evaluated,
                     late |-> it.late,
                     scores |-> IF it.evaluated THEN frame_scores ELSE <<>>,
                     dropped |-> 0, line |-> None,
                     broke |-> h.listening /\ ~is_silent /\ h.run # None]
          /\ hist' = [hist EXCEPT
                        !.run_start =
                            IF h.listening /\ is_silent /\ ~it.invoked
                            THEN Elapse(IF h.run = None THEN Some(time) ELSE h.run, it.late)
                            ELSE None,
                        !.eou_at = Elapse(h.eou, it.late),
                        !.opened = "read",
                        !.frames = @ + 1]
    /\ UNCHANGED <<file_size, stdin_pc>>

\* The inputs of a step that the step does not read are not enumerated: the
\* scores when they are not compared with the threshold, the outcome and the
\* duration of a transcription when none is started, the time between the two
\* is_in_cooldown() calls when the second is not made.
AllTrigger == [i \in DOMAIN Labels |-> [label |-> Labels[i], score |-> threshold + 1]]

\* A frame that comes in while the state is LISTENING_FOR_SPEECH.
FrameListening ==
    /\ speech_processor.state = LISTENING_FOR_SPEECH
    /\ \E dt \in TimeSteps, is_silent \in BOOLEAN :
         IF add_audio_frame(Advance(speech_processor, dt), is_silent, "ok", 0).invoked
         THEN \E tr \in TranscribeOutcomes, d \in TranscribeTimes, race \in RaceTimes :
                 MainLoopFrame(dt, AllTrigger, is_silent, tr, d, race)
         ELSE MainLoopFrame(dt, AllTrigger, is_silent, "ok", 0, 0)

\* A frame that comes in in any other state: add_audio_frame ignores it.
FrameDetecting ==
    /\ speech_processor.state # LISTENING_FOR_SPEECH
    /\ \E dt \in TimeSteps :
         IF is_in_cooldown(Advance(speech_processor, dt))
         THEN \E race \in RaceTimes :
                 MainLoopFrame(dt, AllTrigger, FALSE, "ok", 0, race)
         ELSE \E frame_scores \in FrameScores :
                 MainLoopFrame(dt, frame_scores, FALSE, "ok", 0, 0)

\* Spec does not observe the line the listener read, and the step depends on
\* the line only through is_restart_command: one token line and one other
\* line are drawn (SpecControl draws every line of Lines and observes it).
UnobservedLines == {RESTART \o <<"\n">>, <<"\n">>}

Next ==
    \/ \E c \in ChunkSizes : WriterAppend(c)
    \/ \E line \in UnobservedLines : StdinLine(line)
    \/ StdinEOF
    \/ StdinError
    \/ ReadFrameRestart
    \/ ReadFrameOpenFile
    \/ ReadFrameReset
    \/ \E sleep \in SleepTimes : ReadFrameEmpty(sleep)
    \/ ReadFrameShort
    \/ ReadFrameError
    \/ FrameListening
    \/ FrameDetecting

Spec == Init /\ [][Next]_vars

\* The same steps with the end of input and the read fault observed.
ControlEOF ==
    /\ stdin_pc = "readline"
    /\ stdin_pc' = "done"
    /\ obs' = NoObs("eof")
    /\ UNCHANGED <<file_size, reader, speech_processor, main_pc, out, hist>>

ControlError ==
    /\ stdin_pc = "readline"
    /\ stdin_pc' = stdin_monitor_fault
    /\ obs' = NoObs("stdin_error")
    /\ UNCHANGED <<file_size, reader, speech_processor, main_pc, out, hist>>

\* The loop body on a frame that neither triggers nor is captured.
NoTrigger == [i \in DOMAIN Labels |-> [label |-> Labels[i], score |-> threshold - 1]]

TailFrame == MainLoopFrame(0, NoTrigger, FALSE, "ok", 0, 0)

\* The control listener and the frame source, with the steps of the control
\* listener observed, and the main loop on frames that do not trigger.
NextControl ==
    \/ \E c \in ChunkSizes : WriterAppend(c)
    \/ \E line \in Lines : ControlLine(line)
    \/ ControlEOF
    \/ ControlError
    \/ TailFrame
    \/ ReadFrameRestart
    \/ ReadFrameOpenFile
    \/ ReadFrameReset
    \/ \E sleep \in SleepTimes : ReadFrameEmpty(sleep)
    \/ ReadFrameShort
    \/ ReadFrameError

SpecControl == Init /\ [][NextControl]_vars

\* The frame source tailing a file that grows by chunks of any size: the
\* writer, a restart command, and the main loop on frames that neither trigger
\* nor are captured.
MaxTailFrames == 3
TailChunkSizes == {FRAME_BYTES \div 2, FRAME_BYTES - 1, FRAME_BYTES + 1, 2 * FRAME_BYTES}

TailAppend(c) ==
    /\ file_size + c <= WAV_HEADER + MaxTailFrames * FRAME_BYTES
    /\ file_size' = file_size + c
    /\ UNCHANGED <<reader, speech_processor, main_pc, stdin_pc, out, obs, hist>>

NextTail ==
    \/ \E c \in TailChunkSizes : TailAppend(c)
    \/ StdinLine(RESTART \o <<"\n">>)
    \/ ReadFrameRestart
    \/ ReadFrameOpenFile
    \/ ReadFrameReset
    \/ ReadFrameEmpty(SLEEP_MS)
    \/ ReadFrameShort
    \/ TailFrame

SpecTail == Init /\ [][NextTail]_vars

\* The frame source under fair scheduling.  The main thread runs the loop of
\* main() (line 368) over tail_wav_bytes (lines 279-284) and nothing ever
\* blocks it for good: whenever it can take a step it takes one (a restart
\* handled, a frame, a short read, nothing to read).  A fault of the read is
\* the file system's doing: it may happen at any read and is owed to nobody,
\* as are the steps of the writer and of the control channel.
MainLoopStep ==
    \/ ReadFrameRestart
    \/ ReadFrameOpenFile
    \/ ReadFrameReset
    \/ ReadFrameEmpty(SLEEP_MS)
    \/ ReadFrameShort
    \/ TailFrame

NextLive ==
    \/ \E c \in TailChunkSizes : TailAppend(c)
    \/ StdinLine(RESTART \o <<"\n">>)
    \/ StdinEOF
    \/ MainLoopStep
    \/ ReadFrameError

SpecLive == Init /\ [][NextLive]_vars /\ WF_vars(MainLoopStep)

\* The same fair main loop with the calls of request_restart observed: the
\* control channel sends RESTART lines at any moment, also between two steps
\* of read_frame's handling of a restart, and may end.
NextRestartRace ==
    \/ \E c \in TailChunkSizes : TailAppend(c)
    \/ ControlLine(RESTART \o <<"\n">>)
    \/ ControlEOF
    \/ MainLoopStep
    \/ ReadFrameError

SpecRestartRace == Init /\ [][NextRestartRace]_vars /\ WF_vars(MainLoopStep)

\* ------------------------------------------------------------ recordings
\* A recording is a file the writer appends to in real time, one frame at a
\* time, and that nobody restarts.  Frame 0 carries the wake word, the next
\* `speech` frames are speech (never judged silent) and the frames after them
\* are silence (always judged silent).

\* Index, from 0, of the frame read_frame returns next.
FrameIndex == (reader.f - WAV_HEADER) \div FRAME_BYTES

\* The writer appends the next frame of a recording of `frames` frames once
\* the reader has consumed the file.
WriterRecord(frames) ==
    /\ reader.f = file_size
    /\ file_size < WAV_HEADER + frames * FRAME_BYTES
    /\ file_size' = file_size + FRAME_BYTES
    /\ UNCHANGED <<reader, speech_processor, main_pc, stdin_pc, out, obs, hist>>

Triggering == {fs \in FrameScores : triggered(fs) # <<>>}

\* The main loop processes the next frame of the recording, dt ms after the
\* previous one; the transcription ends in one of `outcomes`.
RecordedFrame(speech, paces, outcomes) ==
    \E dt \in paces :
       IF speech_processor.state = LISTENING_FOR_SPEECH
       THEN \E tr \in outcomes, d \in TranscribeTimes, race \in RaceTimes :
               MainLoopFrame(dt, AllTrigger, FrameIndex > speech, tr, d, race)
       ELSE IF FrameIndex = 0
       THEN \E frame_scores \in Triggering :
               MainLoopFrame(dt, frame_scores, FALSE, "ok", 0, 0)
       ELSE \E frame_scores \in FrameScores, race \in RaceTimes :
               MainLoopFrame(dt, frame_scores, FALSE, "ok", 0, race)

\* 5 s of speech, in whole frames, then 1.2 s of silence, at real-time pace,
\* with a transcription engine that succeeds.
SpeechFrames5s == (5 * 1000 + FRAME_MS - 1) \div FRAME_MS
SilentFrames1200ms == (12 * 100) \div FRAME_MS
Frames5sThenSilence == 1 + SpeechFrames5s + SilentFrames1200ms

NextSpeechThenSilence ==
    \/ WriterRecord(Frames5sThenSilence)
    \/ RecordedFrame(SpeechFrames5s, {FRAME_MS}, {"ok"})

SpecSpeechThenSilence == Init /\ [][NextSpeechThenSilence]_vars

\* 10.5 s of speech: the whole frames of it, none of them silent.
SpeechFrames10500ms == (105 * 100) \div FRAME_MS
FramesLongSpeech == 1 + SpeechFrames10500ms

NextLongSpeech ==
    \/ WriterRecord(FramesLongSpeech)
    \/ RecordedFrame(FramesLongSpeech, TimeSteps \cup {FRAME_MS}, TranscribeOutcomes)

SpecLongSpeech == Init /\ [][NextLongSpeech]_vars

\* ------------------------------------------------ intent.py: str operations
\* Text is a sequence of one-character strings.

UpperCase == <<"A", "B", "C", "D", "E", "F", "G", "H", "I", "J", "K", "L", "M", "N", "O", "P", "Q", "R", "S", "T", "U", "V", "W", "X", "Y", "Z">>
LowerCase == <<"a", "b", "c", "d", "e", "f", "g", "h", "i", "j", "k", "l", "m", "n", "o", "p", "q", "r", "s", "t", "u", "v", "w", "x", "y", "z">>

\* str.lower() and str.upper() on letters A-Z, a-z; other characters are kept.
lower(s) ==
    [i \in DOMAIN s |->
        IF \E k \in DOMAIN UpperCase : UpperCase[k] = s[i]
        THEN LowerCase[CHOOSE k \in DOMAIN UpperCase : UpperCase[k] = s[i]]
        ELSE s[i]]
upper(s) ==
    [i \in DOMAIN s |->
        IF \E k \in DOMAIN LowerCase : LowerCase[k] = s[i]
        THEN UpperCase[CHOOSE k \in DOMAIN LowerCase : LowerCase[k] = s[i]]
        ELSE s[i]]

\* str.split(): the maximal runs of characters that are not whitespace.
RECURSIVE split(_)
split(s) ==
    LET t == lstrip(s)
        ws == {i \in DOMAIN t : t[i] \in Whitespace}
        n == IF ws = {} THEN Len(t) + 1 ELSE CHOOSE i \in ws : \A j \in ws : i <= j
    IN IF t = <<>> THEN <<>>
       ELSE <<SubSeq(t, 1, n - 1)>> \o split(SubSeq(t, n, Len(t)))

\* ' '.join(words)
RECURSIVE join(_)
join(words) ==
    IF words = <<>> THEN <<>>
    ELSE IF Len(words) = 1 THEN words[1]
    ELSE words[1] \o <<" ">> \o join(Tail(words))

\* p in s
contains(p, s) == \E i \in 0 .. Len(s) - Len(p) : SubSeq(s, i + 1, i + Len(p)) = p

\* s.startswith(p)
startswith(s, p) == Len(p) <= Len(s) /\ SubSeq(s, 1, Len(p)) = p

\* s.replace(p, ''): every occurrence of p, from the left, removed.
RECURSIVE remove(_, _)
remove(s, p) ==
    IF p = <<>> \/ Len(s) < Len(p) THEN s
    ELSE IF startswith(s, p) THEN remove(SubSeq(s, Len(p) + 1, Len(s)), p)
    ELSE <<s[1]>> \o remove(Tail(s), p)

\* s.replace('_', ' ')
underscores_to_spaces(s) == [i \in DOMAIN s |-> IF s[i] = "_" THEN " " ELSE s[i]]

\* ------------------------------------------------ VoiceCommandProcessor

filler_words == {<<"t", "h", "e">>, <<"p", "l", "e", "a", "s", "e">>, <<"c", "a", "n">>, <<"y", "o", "u">>, <<"c", "o", "u", "l", "d">>, <<"w", "o", "u", "l", "d">>, <<"a", "l", "l">>}

\* Fault: the text is not lowercased.
normalize_text_keeps_case(text) ==
    join(SelectSeq(split(join(split(text))), LAMBDA w : w \notin filler_words))

\* normalize_text, lines 56-66
normalize_text(text) ==
    join(SelectSeq(split(join(split(lower(text)))), LAMBDA w : w \notin filler_words))

\* A list without the repetitions of its elements, in order of first occurrence
\* (the key order of a dict filled in that order).
RECURSIVE keys(_)
keys(s) ==
    IF s = <<>> THEN <<>>
    ELSE LET r == keys(SubSeq(s, 1, Len(s) - 1))
         IN IF \E i \in DOMAIN r : r[i] = s[Len(s)] THEN r ELSE Append(r, s[Len(s)])

\* The concatenation of a list of lists.
RECURSIVE flatten(_)
flatten(ss) == IF ss = <<>> THEN <<>> ELSE ss[1] \o flatten(Tail(ss))

\* The keys a device is indexed under (lines 42-54): its categories, and its
\* zones that are not empty, lowercased.
category_keys(device) == [i \in DOMAIN device.categories |-> lower(device.categories[i])]
zone_keys(device) ==
    LET zs == SelectSeq(device.zones, LAMBDA z : z # <<>>)
    IN [i \in DOMAIN zs |-> lower(zs[i])]

\* One of the lookup tables of load_intents: the keys in insertion order, each
\* with the devices indexed under it, in the order of self.devices.
index_by(devices, field) ==
    LET keys_of(d) == IF field = "categories" THEN category_keys(d) ELSE zone_keys(d)
        ks == keys(flatten([i \in DOMAIN devices |-> keys_of(devices[i])]))
    IN [k \in DOMAIN ks |->
          [name |-> ks[k],
           devices |-> SelectSeq(devices,
                          LAMBDA d : \E i \in DOMAIN keys_of(d) : keys_of(d)[i] = ks[k])]]

\* load_intents, lines 22-54 (devices_by_name is filled and never read).
load_intents(data) ==
    [devices |-> data,
     devices_by_category |-> index_by(data, "categories"),
     devices_by_zone |-> index_by(data, "zones")]

\* text.replace(pattern, '').strip() and ' '.join(text.split())
without(text, pattern) == join(split(strip(remove(text, pattern))))

\* [d for d in devices if d['ieee_address'] in {ids of the others}]
filtered(devices, others) ==
    SelectSeq(devices, LAMBDA d : \E i \in DOMAIN others :
                                      others[i].ieee_address = d.ieee_address)

First(set) == CHOOSE i \in set : \A j \in set : i <= j

\* _filter_by_zones, lines 91-110
filter_by_zones(self, devices, text) ==
    LET zs == self.devices_by_zone
        hits == {k \in DOMAIN zs : \/ contains(zs[k].name, text)
                                   \/ contains(underscores_to_spaces(zs[k].name), text)}
        zone == zs[First(hits)]
        pattern == IF contains(zone.name, text) THEN zone.name
                   ELSE underscores_to_spaces(zone.name)
    IN IF hits = {} THEN [devices |-> devices, text |-> text]
       ELSE [devices |-> filtered(devices, zone.devices), text |-> without(text, pattern)]

\* lines 116-124: the names a device answers to
device_names(device) ==
    (IF device.custom_name # <<>> THEN <<lower(device.custom_name)>> ELSE <<>>)
    \o (IF device.friendly_name # <<>> /\ ~startswith(device.friendly_name, <<"0", "x">>)
        THEN <<lower(device.friendly_name)>> ELSE <<>>)

\* _filter_by_device_names, lines 112-136
filter_by_device_names(self, devices, text) ==
    LET named(d) == {n \in DOMAIN device_names(d) : contains(device_names(d)[n], text)}
        hits == {k \in DOMAIN devices : named(devices[k]) # {}}
        device == devices[First(hits)]
        name == device_names(device)[First(named(device))]
    IN IF hits = {} THEN [devices |-> devices, text |-> text]
       ELSE [devices |-> <<device>>, text |-> without(text, name)]

\* _filter_by_categories, lines 138-154
filter_by_categories(self, devices, text) ==
    LET cs == self.devices_by_category
        hits == {k \in DOMAIN cs : /\ contains(cs[k].name, text)
                                   /\ filtered(devices, cs[k].devices) # <<>>}
        category == cs[First(hits)]
    IN IF hits = {} THEN [devices |-> devices, text |-> text]
       ELSE [devices |-> filtered(devices, category.devices),
             text |-> without(text, category.name)]

general_commands == {<<"t", "u", "r", "n", " ", "o", "n">>, <<"t", "u", "r", "n", " ", "o", "f", "f">>, <<"s", "w", "i", "t", "c", "h", " ", "o", "n">>, <<"s", "w", "i", "t", "c", "h", " ", "o", "f", "f">>, <<"t", "o", "g", "g", "l", "e">>}
controllable == <<<<"l", "i", "g", "h", "t">>, <<"s", "w", "i", "t", "c", "h">>, <<"l", "a", "m", "p">>, <<"b", "u", "l", "b">>, <<"p", "l", "u", "g">>, <<"o", "u", "t", "l", "e", "t">>>>

\* lines 168-174: the first device of each ieee_address
RECURSIVE unique_devices(_)
unique_devices(devices) ==
    IF devices = <<>> THEN <<>>
    ELSE LET r == unique_devices(SubSeq(devices, 1, Len(devices) - 1))
             d == devices[Len(devices)]
         IN IF \E i \in DOMAIN r : r[i].ieee_address = d.ieee_address THEN r
            ELSE Append(r, d)

\* _handle_general_commands, lines 156-178
handle_general_commands(self, text) ==
    LET cs == self.devices_by_category
        of(category) == flatten(SelectSeq([k \in DOMAIN cs |->
                                   IF cs[k].name = category THEN cs[k].devices ELSE <<>>],
                                LAMBDA l : l # <<>>))
    IN IF \E cmd \in general_commands : contains(cmd, text)
       THEN unique_devices(flatten([i \in DOMAIN controllable |-> of(controllable[i])]))
       ELSE <<>>

\* find_devices, lines 68-89
find_devices(self, text) ==
    LET z == filter_by_zones(self, self.devices, lower(text))
        n == filter_by_device_names(self, z.devices, z.text)
        c == filter_by_categories(self, n.devices, n.text)
    IN IF c.devices = <<>> THEN handle_general_commands(self, c.text) ELSE c.devices

Digits == <<"0", "1", "2", "3", "4", "5", "6", "7", "8", "9">>

\* float(s) for a string of decimal digits, in hundredths; None stands for
\* ValueError, which is what the empty string and words raise (the other
\* spellings float() accepts, such as a sign or a fraction, are not written
\* by the commands below).
RECURSIVE float(_)
float(s) ==
    LET digit(c) == (CHOOSE k \in DOMAIN Digits : Digits[k] = c) - 1
        t == strip(s)
        init == float(SubSeq(t, 1, Len(t) - 1))
    IN IF t = <<>> \/ \E i \in DOMAIN t : \A k \in DOMAIN Digits : Digits[k] # t[i] THEN None
       ELSE IF Len(t) = 1 THEN Some(100 * digit(t[1]))
       ELSE Some(10 * Val(init) + 100 * digit(t[Len(t)]))

\* text.split('to')[-1]: what follows the last occurrence of 'to'
after_last_to(text) ==
    LET to == <<"t", "o">>
        at == {i \in 1 .. Len(text) - 1 : SubSeq(text, i, i + 1) = to}
        last == CHOOSE i \in at : \A j \in at : j <= i
    IN IF at = {} THEN text ELSE SubSeq(text, last + 2, Len(text))

\* lines 188-204: the first command phrase of a writable property that occurs
\* in the text
phrase_command(text_lower, device) ==
    LET props == device.properties
        hits == {pc \in UNION {{<<p, c>> : c \in DOMAIN props[p].commands} :
                                  p \in DOMAIN props} :
                    /\ props[pc[1]].is_writable
                    /\ contains(props[pc[1]].commands[pc[2]].phrase, text_lower)}
        first == CHOOSE h \in hits : \A g \in hits :
                    h[1] < g[1] \/ (h[1] = g[1] /\ h[2] <= g[2])
    IN IF hits = {} THEN None
       ELSE Some([property |-> props[first[1]].name,
                  value |-> props[first[1]].commands[first[2]].value,
                  command |-> props[first[1]].commands[first[2]].phrase])

\* lines 207-234: a writable numeric property named in the text, set 'to' a
\* number or a percentage of its range
set_command(text_lower, device) ==
    LET props == device.properties
        value_part == strip(after_last_to(text_lower))
        number == float(remove(value_part, <<"%">>))
        value(prop) == IF contains(<<"%">>, value_part)
                          /\ prop.min_value # None /\ prop.max_value # None
                       THEN 100 * Val(prop.min_value)
                            + (Val(prop.max_value) - Val(prop.min_value))
                              * (Val(number) \div 100)
                       ELSE Val(number)
        hits == {p \in DOMAIN props :
                    /\ props[p].is_writable
                    /\ contains(lower(props[p].name), text_lower)
                    /\ contains(<<"t", "o">>, text_lower)
                    /\ props[p].type = "numeric"
                    /\ number # None}
        prop == props[First(hits)]
    IN IF hits = {} THEN None
       ELSE Some([property |-> lower(prop.name),
                  value |-> [hundredths |-> value(prop)],
                  command |-> [set |-> lower(prop.name), to |-> value(prop)]])

\* find_command_and_value, lines 180-236
find_command_and_value(text, device) ==
    IF phrase_command(lower(text), device) # None
    THEN phrase_command(lower(text), device)
    ELSE set_command(lower(text), device)

\* process_command, lines 238-285
process_command(self, text) ==
    LET normalized_text == normalize_text(text)
        devices == find_devices(self, normalized_text)
        found == SelectSeq(devices, LAMBDA d : find_command_and_value(normalized_text, d) # None)
        device_commands ==
            [i \in DOMAIN found |->
                LET command_data == Val(find_command_and_value(normalized_text, found[i]))
                IN [ieee_address |-> found[i].ieee_address,
                    friendly_name |-> found[i].friendly_name,
                    custom_name |-> found[i].custom_name,
                    property |-> command_data.property,
                    value |-> command_data.value,
                    command |-> command_data.command]]
    IN IF devices = <<>>
       THEN [success |-> FALSE, error |-> "No devices found", input |-> text,
             devices |-> <<>>, commands |-> <<>>]
       ELSE IF device_commands = <<>>
       THEN [success |-> FALSE, error |-> "No valid commands found for devices",
             input |-> text,
             devices |-> [i \in DOMAIN devices |-> devices[i].ieee_address],
             commands |-> <<>>]
       ELSE [success |-> TRUE, input |-> text, normalized |-> normalized_text,
             commands |-> device_commands]

\* ---------------------------------------------------- intents and commands
\* The devices of intents.json: a lamp whose name contains the name of another
\* lamp, and a plug known by its custom name only.

state_property ==
    [name |-> <<"s", "t", "a", "t", "e">>, is_writable |-> TRUE, type |-> "binary",
     min_value |-> None, max_value |-> None,
     commands |-> <<[phrase |-> <<"t", "u", "r", "n", " ", "o", "n">>, value |-> "ON"],
                    [phrase |-> <<"t", "u", "r", "n", " ", "o", "f", "f">>, value |-> "OFF"],
                    [phrase |-> <<"t", "o", "g", "g", "l", "e">>, value |-> "TOGGLE"]>>]
brightness_property ==
    [name |-> <<"b", "r", "i", "g", "h", "t", "n", "e", "s", "s">>, is_writable |-> TRUE, type |-> "numeric",
     min_value |-> Some(0), max_value |-> Some(254),
     commands |-> <<[phrase |-> <<"b", "r", "i", "g", "h", "t", "e", "r">>, value |-> "+"],
                    [phrase |-> <<"d", "i", "m">>, value |-> "-"]>>]
linkquality_property ==
    [name |-> <<"l", "i", "n", "k", "q", "u", "a", "l", "i", "t", "y">>, is_writable |-> FALSE, type |-> "numeric",
     min_value |-> Some(0), max_value |-> Some(255), commands |-> <<>>]

light == <<"l", "i", "g", "h", "t">>
lamp == <<"l", "a", "m", "p">>
switch == <<"s", "w", "i", "t", "c", "h">>
plug == <<"p", "l", "u", "g">>
living_room == <<"l", "i", "v", "i", "n", "g", "_", "r", "o", "o", "m">>
bedroom == <<"b", "e", "d", "r", "o", "o", "m">>

RightLamp ==
    [ieee_address |-> "0x01", friendly_name |-> <<"R", "i", "g", "h", "t", " ", "L", "a", "m", "p">>, custom_name |-> <<>>,
     categories |-> <<light, lamp>>, zones |-> <<living_room>>,
     properties |-> <<state_property, brightness_property, linkquality_property>>]
Lamp ==
    [ieee_address |-> "0x02", friendly_name |-> <<"L", "a", "m", "p">>, custom_name |-> <<>>,
     categories |-> <<light, lamp>>, zones |-> <<bedroom>>,
     properties |-> <<state_property, brightness_property>>]
LeftPlug ==
    [ieee_address |-> "0x03", friendly_name |-> <<"0", "x", "0", "3">>, custom_name |-> <<"L", "e", "f", "t", " ", "p", "l", "u", "g">>,
     categories |-> <<switch, plug>>, zones |-> <<living_room, <<>> >>,
     properties |-> <<linkquality_property, state_property>>]

\* The device lists intents.json may hold: the three devices in every order,
\* two of them, and none.
Intents ==
    { <<RightLamp, Lamp, LeftPlug>>, <<RightLamp, LeftPlug, Lamp>>,
      <<Lamp, RightLamp, LeftPlug>>, <<Lamp, LeftPlug, RightLamp>>,
      <<LeftPlug, RightLamp, Lamp>>, <<LeftPlug, Lamp, RightLamp>>,
      <<RightLamp, LeftPlug>>, <<Lamp, LeftPlug>>, <<>> }

\* The voice commands: each text with what it names (a device by its
\* ieee_address, a category with or without a zone, a device or zone that
\* does not exist, or nothing).
DeviceCommands ==
    { [text |-> <<"t", "u", "r", "n", " ", "o", "n", " ", "r", "i", "g", "h", "t", " ", "l", "a", "m", "p">>,
       names |-> "device", device |-> "0x01", category |-> <<>>, zone |-> None],
      [text |-> <<"t", "u", "r", "n", " ", "o", "f", "f", " ", "t", "h", "e", " ", "r", "i", "g", "h", "t", " ", "l", "a", "m", "p">>,
       names |-> "device", device |-> "0x01", category |-> <<>>, zone |-> None],
      [text |-> <<"T", "U", "R", "N", " ", "O", "N", " ", "R", "I", "G", "H", "T", " ", "L", "A", "M", "P">>,
       names |-> "device", device |-> "0x01", category |-> <<>>, zone |-> None],
      [text |-> <<" ", " ", " ", "t", "u", "r", "n", " ", " ", " ", "o", "n", " ", " ", " ", "r", "i", "g", "h", "t", " ", " ", " ", "l", "a", "m", "p", " ", " ", " ">>,
       names |-> "device", device |-> "0x01", category |-> <<>>, zone |-> None],
      [text |-> <<"p", "l", "e", "a", "s", "e", " ", "t", "u", "r", "n", " ", "o", "n", " ", "t", "h", "e", " ", "r", "i", "g", "h", "t", " ", "l", "a", "m", "p">>,
       names |-> "device", device |-> "0x01", category |-> <<>>, zone |-> None],
      [text |-> <<"t", "u", "r", "n", " ", "o", "n", " ", "l", "a", "m", "p">>,
       names |-> "device", device |-> "0x02", category |-> <<>>, zone |-> None],
      [text |-> <<"t", "u", "r", "n", " ", "o", "f", "f", " ", "l", "e", "f", "t", " ", "p", "l", "u", "g">>,
       names |-> "device", device |-> "0x03", category |-> <<>>, zone |-> None],
      [text |-> <<"d", "i", "m", " ", "t", "h", "e", " ", "r", "i", "g", "h", "t", " ", "l", "a", "m", "p">>,
       names |-> "device", device |-> "0x01", category |-> <<>>, zone |-> None],
      [text |-> <<"s", "e", "t", " ", "r", "i", "g", "h", "t", " ", "l", "a", "m", "p", " ", "b", "r", "i", "g", "h", "t", "n", "e", "s", "s", " ", "t", "o", " ", "5", "0", "%">>,
       names |-> "device", device |-> "0x01", category |-> <<>>, zone |-> None] }
CategoryCommands ==
    { [text |-> <<"t", "u", "r", "n", " ", "o", "n", " ", "a", "l", "l", " ", "l", "i", "g", "h", "t", "s">>,
       names |-> "category", device |-> "", category |-> light, zone |-> None],
      [text |-> <<"t", "u", "r", "n", " ", "o", "f", "f", " ", "a", "l", "l", " ", "l", "a", "m", "p", "s">>,
       names |-> "category", device |-> "", category |-> lamp, zone |-> None],
      [text |-> <<"t", "u", "r", "n", " ", "o", "n", " ", "l", "i", "v", "i", "n", "g", " ", "r", "o", "o", "m", " ", "l", "i", "g", "h", "t", "s">>,
       names |-> "category", device |-> "", category |-> light, zone |-> Some(living_room)],
      [text |-> <<"t", "u", "r", "n", " ", "o", "n", " ", "a", "l", "l", " ", "l", "i", "v", "i", "n", "g", " ", "r", "o", "o", "m", " ", "s", "w", "i", "t", "c", "h", "e", "s">>,
       names |-> "category", device |-> "", category |-> switch, zone |-> Some(living_room)],
      [text |-> <<"t", "u", "r", "n", " ", "o", "f", "f", " ", "b", "e", "d", "r", "o", "o", "m", " ", "l", "i", "g", "h", "t", "s">>,
       names |-> "category", device |-> "", category |-> light, zone |-> Some(bedroom)],
      [text |-> <<"w", "o", "u", "l", "d", " ", "y", "o", "u", " ", "t", "u", "r", "n", " ", "o", "f", "f", " ", "a", "l", "l", " ", "t", "h", "e", " ", "l", "i", "g", "h", "t", "s", " ", "p", "l", "e", "a", "s", "e">>,
       names |-> "category", device |-> "", category |-> light, zone |-> None] }
UnknownCommands ==
    { [text |-> <<"t", "u", "r", "n", " ", "o", "n", " ", "n", "o", "n", "e", "x", "i", "s", "t", "e", "n", "t", " ", "d", "e", "v", "i", "c", "e">>,
       names |-> "unknown", device |-> "", category |-> <<>>, zone |-> None],
      [text |-> <<"t", "u", "r", "n", " ", "o", "n", " ", "k", "i", "t", "c", "h", "e", "n", " ", "l", "i", "g", "h", "t", "s">>,
       names |-> "unknown", device |-> "", category |-> <<>>, zone |-> None],
      [text |-> <<"r", "i", "g", "h", "t", "l", "a", "m", "p", " ", "o", "n">>,
       names |-> "unknown", device |-> "", category |-> <<>>, zone |-> None] }
OtherCommands ==
    { [text |-> <<"t", "u", "r", "n", " ", "o", "n">>,
       names |-> "none", device |-> "", category |-> <<>>, zone |-> None],
      [text |-> <<"t", "o", "g", "g", "l", "e">>,
       names |-> "none", device |-> "", category |-> <<>>, zone |-> None],
      [text |-> <<"p", "l", "a", "y", " ", "s", "o", "m", "e", " ", "m", "u", "s", "i", "c">>,
       names |-> "none", device |-> "", category |-> <<>>, zone |-> None],
      [text |-> <<>>,
       names |-> "none", device |-> "", category |-> <<>>, zone |-> None],
      [text |-> <<"s", "e", "t", " ", "b", "r", "i", "g", "h", "t", "n", "e", "s", "s", " ", "t", "o", " ", "5", "0">>,
       names |-> "none", device |-> "", category |-> <<>>, zone |-> None],
      [text |-> <<"t", "u", "r", "n", " ", "o", "n", " ", "l", "i", "v", "i", "n", "g", " ", "r", "o", "o", "m">>,
       names |-> "none", device |-> "", category |-> <<>>, zone |-> None] }
Commands == DeviceCommands \cup CategoryCommands \cup UnknownCommands \cup OtherCommands

\* VoiceCommandProcessor() loads a device list, and process_command runs on
\* one command after another; the wake listener is not running.
InitIntent ==
    /\ file_size = WAV_HEADER
    /\ reader = open_file(RestartableFileReader_init)
    /\ speech_processor = SpeechProcessor_init
    /\ main_pc = "read_frame"
    /\ stdin_pc = "readline"
    /\ out = <<>>
    /\ hist = hist_init
    /\ \E data \in Intents :
          obs = [step |-> "loaded", self |-> load_intents(data), command |-> None,
                 result |-> None]

ProcessCommand(cmd) ==
    /\ obs' = [obs EXCEPT !.step = "command", !.command = Some(cmd),
                          !.result = Some(process_command(obs.self, cmd.text))]
    /\ UNCHANGED <<file_size, reader, speech_processor, main_pc, stdin_pc, out, hist>>

NextIntent == \E cmd \in Commands : ProcessCommand(cmd)

SpecIntent == InitIntent /\ [][NextIntent]_vars

\* ---------------------------------------------------------- feature history
\* The silence verdict of add_audio_frame (lines 117-147) on the features of
\* the frames of one listening session.  rms is in thousandths, zcr in
\* thousandths; a mean is kept as the pair of its sum and its count, and a
\* comparison with a multiple of a mean is made on both sides times the count.

WARMUP_FRAMES == 10
RMS_DEFAULT == 20
RMS_FLOOR == 10

RECURSIVE SumRms(_)
SumRms(q) == IF q = <<>> THEN 0 ELSE Head(q).rms + SumRms(Tail(q))

RECURSIVE SumZcr(_)
SumZcr(q) == IF q = <<>> THEN 0 ELSE Head(q).zcr + SumZcr(Tail(q))

\* lines 118-119, 126: deque(maxlen=50).append(features)
features_append(q, features) ==
    IF Len(q) = FEATURES_MAXLEN THEN Append(Tail(q), features) ELSE Append(q, features)

\* Fault: the adaptive thresholds used from the tenth sample on.
calibrated_at_ten(recent_features) == Len(recent_features) >= WARMUP_FRAMES

\* line 129: if len(self.recent_features) > 10
calibrated(recent_features) == Len(recent_features) > WARMUP_FRAMES

\* lines 129-147: is_silent for the frame whose features were just appended.
\*   rms_threshold = max(avg_rms * 0.25, 0.01), compared times 4 * n
\*   zcr_threshold = avg_zcr * 1.5, compared times 2 * n
silence_verdict(recent_features, features) ==
    IF calibrated(recent_features)
    THEN LET n == Len(recent_features)
             rms_threshold_4n == Max(SumRms(recent_features), 4 * n * RMS_FLOOR)
             zcr_threshold_2n == 3 * SumZcr(recent_features)
         IN (4 * n * features.rms < rms_threshold_4n) /\ (2 * n * features.zcr < zcr_threshold_2n)
    ELSE features.rms < RMS_DEFAULT

\* The frames of a session carry the features `first` up to frame `k` and the
\* features `rest` after it.
MaxFeatureFrames == 60
RmsValues == {5, 15, 25, 120}
ZcrValues == {0, 40, 100}
FeatureValues == [rms : RmsValues, zcr : ZcrValues]
ChangeAt == {0, 5, WARMUP_FRAMES, WARMUP_FRAMES + 1, FEATURES_MAXLEN + 5}
FeatureRecordings == [first : FeatureValues, k : ChangeAt, rest : FeatureValues]

FeaturesOf(rec, i) == IF i <= rec.k THEN rec.first ELSE rec.rest

\* start_listening has run on a processor whose history is empty (it is the
\* first session, or process_buffered_audio emptied it at line 259).
InitFeatures ==
    /\ file_size = WAV_HEADER
    /\ reader = open_file(RestartableFileReader_init)
    /\ speech_processor = start_listening(SpeechProcessor_init).self
    /\ main_pc = "read_frame"
    /\ stdin_pc = "readline"
    /\ out = <<>>
    /\ hist = hist_init
    /\ \E rec \in FeatureRecordings :
          obs = [step |-> "session", recording |-> rec, n |-> 0,
                 recent_features |-> <<>>, features |-> None, is_silent |-> FALSE]

\* add_audio_frame, lines 117-147, on the next frame of the session.
FeatureFrame ==
    /\ obs.n < MaxFeatureFrames
    /\ \E features \in {FeaturesOf(obs.recording, obs.n + 1)} :
       \E recent \in {features_append(obs.recent_features, features)} :
          obs' = [obs EXCEPT !.step = "features", !.n = @ + 1,
                             !.recent_features = recent,
                             !.features = Some(features),
                             !.is_silent = silence_verdict(recent, features)]
    /\ UNCHANGED <<file_size, reader, speech_processor, main_pc, stdin_pc, out, hist>>

NextFeatures == FeatureFrame

SpecFeatures == InitFeatures /\ [][NextFeatures]_vars

\* ------------------------------------------------------------------ claims
\* The claims read the observation obs of the last step of the main loop and
\* the events out it printed.

\* The last step processed a silent frame in LISTENING_FOR_SPEECH.
SilentFrame == obs.step = "frame" /\ obs.listening /\ obs.is_silent

\* Time from the moment the first silent frame of the run was processed to
\* the moment this one was.
Elapsed == time - Val(obs.run)

\* C1 as stated: for a silent frame in LISTENING_FOR_SPEECH,
\* process_buffered_audio is invoked exactly when the time elapsed since the
\* first silent frame of the run exceeds SILENCE_TIMEOUT_MS, never on an
\* earlier frame, and by then the timeout is exceeded by no more than one
\* frame duration.
C1_AsStated ==
    SilentFrame =>
        /\ obs.invoked <=> (obs.run # None /\ Elapsed > SILENCE_TIMEOUT_MS)
        /\ obs.invoked => (obs.run # None /\ Elapsed <= SILENCE_TIMEOUT_MS + FRAME_MS)

\* C1 amended: for a silent frame in LISTENING_FOR_SPEECH the utterance ends
\* by silence_detected exactly when the frame continues a run of silent frames
\* and the time elapsed since the first silent frame of the run was processed
\* exceeds SILENCE_TIMEOUT_MS (never on an earlier frame of the run); the only
\* other way a silent frame invokes process_buffered_audio is the buffer
\* reaching maxlen - 10 frames.  By how much the timeout is exceeded is
\* decided by when the frame arrives.
C1_SilenceTimeout ==
    SilentFrame =>
        /\ Has(out, "silence_detected")
               <=> (obs.run # None /\ Elapsed > SILENCE_TIMEOUT_MS)
        /\ Has(out, "silence_detected") => obs.invoked /\ Count(out, "silence_detected") = 1
        /\ obs.invoked
               <=> (Has(out, "silence_detected") \/ obs.len_before + 1 >= maxlen - 10)

\* C1 witness: a silent frame ends the utterance more than a frame duration
\* after the timeout was exceeded.
C1_Witness ==
    /\ SilentFrame /\ Has(out, "silence_detected")
    /\ obs.run # None /\ Elapsed > SILENCE_TIMEOUT_MS + FRAME_MS

\* C2: the capture buffer never holds more frames than its capacity, no
\* frame is ever evicted from it, and a frame that brings it to capacity minus
\* the safety margin forces the end-of-utterance action, silent or not: the
\* step prints max_buffer_reached (or silence_detected), invokes
\* process_buffered_audio and leaves the session, so between two steps the
\* buffer stays below capacity minus the margin.
C2_BufferBounded ==
    /\ speech_processor.audio_buffer.len <= maxlen
    /\ speech_processor.audio_buffer.evicted = 0
    /\ speech_processor.audio_buffer.len < maxlen - 10
    /\ (obs.step = "frame" /\ obs.listening /\ obs.len_before + 1 >= maxlen - 10)
          => /\ obs.invoked
             /\ Has(out, "max_buffer_reached") \/ Has(out, "silence_detected")
             /\ ~obs.is_silent => Has(out, "max_buffer_reached")
             /\ speech_processor.audio_buffer.len = 0

\* C2 witness: a non-silent frame fills the buffer to capacity minus the
\* margin and the action is forced.
C2_Witness ==
    /\ obs.step = "frame" /\ obs.listening /\ ~obs.is_silent
    /\ obs.len_before + 1 = maxlen - 10
    /\ Has(out, "max_buffer_reached") /\ obs.invoked

\* The cooldown window as an observer measures it: less than cooldown_period
\* has passed since the last end-of-utterance action completed.
CooldownActive(eou) == eou # None /\ (time - Val(eou)) < cooldown_period

\* C3: every invocation of process_buffered_audio finds a non-empty buffer
\* and, whether the transcription succeeds or raises, leaves the state
\* WAKE_WORD_DETECTION and the buffer empty; from the moment it completes
\* is_in_cooldown() is true while less than cooldown_period has passed and
\* false from then on.
C3_AfterEndOfUtterance ==
    /\ (obs.step = "frame" /\ obs.invoked)
          => /\ obs.transcribed \in TranscribeOutcomes
             /\ speech_processor.audio_buffer.len = 0
             /\ speech_processor.state = WAKE_WORD_DETECTION
    /\ is_in_cooldown(speech_processor) <=> CooldownActive(hist.eou_at)

\* C3 witness: exactly cooldown_period after an end-of-utterance action the
\* cooldown is over.
C3_Witness ==
    /\ hist.eou_at = Some(time - cooldown_period)
    /\ ~is_in_cooldown(speech_processor)
    /\ speech_processor.state = WAKE_WORD_DETECTION

\* The last step took the state from WAKE_WORD_DETECTION to
\* LISTENING_FOR_SPEECH or printed a wakeword event.
Triggered ==
    /\ obs.step = "frame"
    /\ \/ Has(out, "wakeword")
       \/ Has(out, "listening_start")
       \/ (speech_processor.state = LISTENING_FOR_SPEECH /\ (~obs.listening \/ obs.invoked))

\* C4: no wakeword event is printed and the state never becomes
\* LISTENING_FOR_SPEECH on a frame processed while less than cooldown_period
\* has passed since the last end-of-utterance action, whatever the scores.
C4_NoTriggerInCooldown == Triggered => ~CooldownActive(obs.since_eou)

\* C4 witness: a frame triggers exactly cooldown_period after an
\* end-of-utterance action, the earliest it can.
C4_Witness ==
    /\ Triggered /\ Has(out, "wakeword")
    /\ obs.since_eou = Some(time - cooldown_period)

SilentFramesToTimeout == SILENCE_TIMEOUT_MS \div FRAME_MS + 2

\* C6 as stated (SpecSpeechThenSilence): the transcription event of the
\* recording has an audio_duration between 5.0 and 5.1 s.
C6_AsStated ==
    \A i \in DOMAIN out :
        out[i].type = "transcription"
            => (out[i].audio_duration >= 500 /\ out[i].audio_duration <= 510)

\* C6 amended (SpecSpeechThenSilence): 5 s of speech followed by 1.2 s of
\* silence at real-time pace produce exactly one transcription event, printed
\* by the silent frame that exceeds the timeout, and its audio_duration is
\* 6.16 s: the 63 speech frames and the 14 silent frames processed up to the
\* timeout are all part of the captured audio.
C6_Transcription ==
    /\ Has(out, "transcription")
          => /\ Count(out, "transcription") = 1
             /\ Has(out, "silence_detected")
             /\ FrameIndex = 1 + SpeechFrames5s + SilentFramesToTimeout
             /\ obs.len_before + 1 = SpeechFrames5s + SilentFramesToTimeout
             /\ \A i \in DOMAIN out :
                    out[i].type = "transcription" => out[i].audio_duration = 616
    /\ ~Has(out, "error") /\ ~Has(out, "max_buffer_reached")
    /\ FrameIndex > 1 + SpeechFrames5s + SilentFramesToTimeout
          => (hist.eou_at # None /\ ~Has(out, "transcription"))

\* C6 witness: the transcription of the recording is printed.
C6_Witness ==
    /\ Has(out, "transcription")
    /\ obs.is_silent /\ obs.len_before >= SpeechFrames5s

\* C7 (SpecLongSpeech): 10.5 s of speech after a trigger produce exactly one
\* max_buffer_reached event, on the frame that fills the buffer to capacity
\* minus the margin, followed in the same step by exactly one transcription
\* or error event; the step leaves the state WAKE_WORD_DETECTION and the
\* buffer empty, and a frame is appended to the buffer only in a step that
\* begins in LISTENING_FOR_SPEECH, a state entered only from
\* WAKE_WORD_DETECTION through start_listening with the buffer empty.
C7_LongSpeech ==
    /\ Has(out, "max_buffer_reached")
          => /\ Count(out, "max_buffer_reached") = 1
             /\ FrameIndex = maxlen - 10 + 1
             /\ Count(out, "transcription") + Count(out, "error") = 1
             /\ \A i, j \in DOMAIN out :
                    (out[i].type = "max_buffer_reached"
                       /\ out[j].type \in {"transcription", "error"}) => i < j
             /\ speech_processor.state = WAKE_WORD_DETECTION
             /\ speech_processor.audio_buffer.len = 0
    /\ FrameIndex > maxlen - 10 => hist.eou_at # None
    /\ ~Has(out, "silence_detected")
    /\ speech_processor.audio_buffer.len > 0
          => speech_processor.state = LISTENING_FOR_SPEECH
    /\ (obs.step = "frame" /\ speech_processor.audio_buffer.len > obs.len_before)
          => (obs.listening /\ speech_processor.state = LISTENING_FOR_SPEECH)
    /\ (obs.step = "frame" /\ speech_processor.state = LISTENING_FOR_SPEECH
           /\ ~obs.listening)
          => (Has(out, "listening_start") /\ speech_processor.audio_buffer.len = 0)

\* C7 witness: the forced end of the long utterance, transcribed.
C7_Witness ==
    /\ Has(out, "max_buffer_reached") /\ Has(out, "transcription")
    /\ obs.len_before + 1 = maxlen - 10

\* The last step processed a frame in WAKE_WORD_DETECTION outside the
\* cooldown window.
Detecting ==
    /\ obs.step = "frame" /\ ~obs.listening
    /\ ~CooldownActive(obs.since_eou)

AnyAtThreshold(scores) == \E i \in DOMAIN scores : scores[i].score >= threshold

\* C8: in WAKE_WORD_DETECTION outside the cooldown the scores of the frame
\* are compared with the threshold, and the frame triggers (state
\* LISTENING_FOR_SPEECH, one wakeword event) exactly when some score is
\* greater than or equal to the threshold; with every score below it nothing
\* is printed and the state stays WAKE_WORD_DETECTION.
C8_InclusiveThreshold ==
    Detecting =>
        /\ obs.evaluated
        /\ AnyAtThreshold(obs.scores)
              <=> (Count(out, "wakeword") = 1
                   /\ speech_processor.state = LISTENING_FOR_SPEECH)
        /\ ~AnyAtThreshold(obs.scores)
              => (out = <<>> /\ speech_processor.state = WAKE_WORD_DETECTION)

\* C8 witness: a frame whose highest score equals the threshold triggers.
C8_Witness ==
    /\ Detecting /\ Has(out, "wakeword")
    /\ speech_processor.state = LISTENING_FOR_SPEECH
    /\ obs.scores # <<>>
    /\ \A i \in DOMAIN obs.scores : obs.scores[i].score <= threshold

\* C9: when the transcription engine raises, the step prints exactly one
\* error event and no transcription event, the buffer is cleared, the
\* cooldown is counted from the completion of the action, the state is
\* WAKE_WORD_DETECTION and the main loop goes on to the next frame: no step
\* on a frame ends the main loop.
C9_TranscriptionFault ==
    /\ obs.step = "frame" => main_pc # "dead"
    /\ (obs.step = "frame" /\ obs.transcribed = "raise")
          => /\ Count(out, "error") = 1
             /\ Count(out, "transcription") = 0
             /\ CooldownInfo \in {out[i] : i \in DOMAIN out}
             /\ speech_processor.audio_buffer.len = 0
             /\ speech_processor.state = WAKE_WORD_DETECTION
             /\ speech_processor.last_transcription_time = Some(time - obs.late)
             /\ main_pc = "read_frame"

\* C9 witness: the engine raised at the end of an utterance and the loop goes on.
C9_Witness ==
    /\ obs.step = "frame" /\ obs.transcribed = "raise"
    /\ Has(out, "error") /\ main_pc = "read_frame"
    /\ obs.len_before > 0

\* The state is WAKE_WORD_DETECTION when add_audio_frame has returned.
DetectionAfterAdd == ~obs.listening \/ obs.invoked

\* C10 as stated: predict is called once on every frame the main loop pulls.
C10_AsStated == obs.step = "frame" => obs.predicted = 1

\* C10 amended: predict is called at most once per frame, and only on frames
\* after whose add_audio_frame the state is WAKE_WORD_DETECTION: once when the
\* cooldown is not active (scores evaluated) or is still active at the second
\* is_in_cooldown() call (scores discarded); not at all on a frame that leaves
\* the state LISTENING_FOR_SPEECH, nor on a frame during which the cooldown
\* expires between the two is_in_cooldown() calls.
C10_PredictInDetection ==
    obs.step = "frame" =>
        obs.predicted =
            IF DetectionAfterAdd
               /\ (~CooldownActive(obs.since_eou)
                     \/ CooldownActive(Elapse(obs.since_eou, obs.late)))
            THEN 1 ELSE 0

\* C10 witness: a frame is captured into a continuing utterance and the model
\* does not see it.
C10_Witness ==
    /\ obs.step = "frame" /\ obs.listening /\ ~obs.invoked
    /\ speech_processor.state = LISTENING_FOR_SPEECH
    /\ obs.predicted = 0

\* The first item of the scores whose score meets the threshold.
FirstAtThreshold(scores) ==
    scores[CHOOSE i \in DOMAIN scores :
              /\ scores[i].score >= threshold
              /\ \A j \in DOMAIN scores : j < i => scores[j].score < threshold]

\* C11: a frame that triggers prints exactly a listening_start event
\* followed by a wakeword event with the label and score of the first item
\* that meets the threshold, and leaves the state LISTENING_FOR_SPEECH, the
\* buffer empty (the triggering frame is not captured), silence_start_time
\* None and last_speech_time the time of the trigger; the state goes from
\* detection to LISTENING_FOR_SPEECH in no other way.
C11_Trigger ==
    /\ (obs.step = "frame" /\ Has(out, "wakeword"))
          => /\ AnyAtThreshold(obs.scores)
             /\ out = <<Event("listening_start"),
                        [type |-> "wakeword",
                         label |-> FirstAtThreshold(obs.scores).label,
                         score |-> FirstAtThreshold(obs.scores).score]>>
             /\ speech_processor.state = LISTENING_FOR_SPEECH
             /\ speech_processor.audio_buffer.len = 0
             /\ speech_processor.silence_start_time = None
             /\ speech_processor.last_speech_time = Some(time)
    /\ (obs.step = "frame" /\ ~obs.listening
           /\ speech_processor.state = LISTENING_FOR_SPEECH)
          => Has(out, "wakeword")

\* C11 witness: a trigger by the second label, after an earlier utterance.
C11_Witness ==
    /\ obs.step = "frame" /\ Has(out, "wakeword")
    /\ obs.scores[1].score < threshold
    /\ out[2].label = Labels[2]
    /\ obs.since_eou # None
    /\ speech_processor.silence_start_time = None

\* The line is the token RESTART with nothing but whitespace around it.
IsTokenLine(l) ==
    \E a \in 0 .. Len(l) :
        /\ a + Len(RESTART) <= Len(l)
        /\ SubSeq(l, a + 1, a + Len(RESTART)) = RESTART
        /\ \A k \in 1 .. Len(l) :
              (k <= a \/ k > a + Len(RESTART)) => l[k] \in Whitespace

\* The step is a step of stdin_monitor on a line (SpecControl).
ControlStep == obs'.step = "line" /\ UNCHANGED <<file_size, stdin_pc>>

\* C12 (SpecControl): a line the control listener receives sets the restart
\* flag if it is the token RESTART surrounded by whitespace only, and changes
\* nothing else; any other line ('restart', 'RESTART now', 'REST ART', an empty
\* line) leaves the flag and all other state as they were.
C12_RestartToken ==
    [][ControlStep =>
          /\ reader' = IF IsTokenLine(Val(obs'.line))
                        THEN [reader EXCEPT !.restart_requested = TRUE]
                        ELSE reader
          /\ UNCHANGED <<speech_processor, main_pc, out>>]_vars

\* C12 witness: the token with whitespace around it has set the flag while a
\* partially read frame is held.
C12_Witness ==
    /\ obs.step = "line"
    /\ obs.line = Some(<<" ">> \o RESTART \o <<" ", "\r", "\n">>)
    /\ reader.restart_requested
    /\ reader.leftover # <<>>

\* C13: a read error raised by the audio file while read_frame reads
\* mid-stream is treated like a short read: no frame is returned, leftover and
\* the capture state are unchanged and the main loop goes on to retry.
C13_AsStated == obs.step = "read_error" => main_pc = "read_frame"

\* The bytes of the file from offset a up to offset b.
Extent(a, b) == IF a >= b THEN <<>> ELSE <<(<<a, b>>)>>

\* Offset of the first byte after the frames returned since the file was opened.
Delivered == WAV_HEADER + hist.frames * FRAME_BYTES

\* C14 (SpecTail): between two restarts, whatever the chunk sizes of the
\* writer and the interleaving, the n-th frame read_frame returns is the n-th
\* FRAME_BYTES-long slice of the file after the 44-byte header; the bytes read
\* and not yet returned are held in leftover, in file order and without a gap;
\* a short read returns no frame and keeps its bytes; leftover is always
\* shorter than a frame.
C14_ConsecutiveFrames ==
    /\ BLen(reader.leftover) < FRAME_BYTES
    /\ reader.f <= file_size
    /\ reader.leftover = Extent(Delivered, reader.f)
    /\ obs.step = "frame"
          => obs.samples = Some(Extent(Delivered - FRAME_BYTES, Delivered))
    /\ obs.step = "short" => (reader.leftover # <<>> /\ out = <<>>)

\* C14 witness: two frames were returned and a short read then left one byte
\* less than a frame in leftover.
C14_Witness ==
    /\ obs.step = "short"
    /\ hist.frames = 2
    /\ BLen(reader.leftover) = FRAME_BYTES - 1

\* The step is a step of the control listener: the restart flag is raised or
\* the listener ends.
ListenerStep == (reader'.restart_requested /\ ~reader.restart_requested) \/ stdin_pc' # stdin_pc

\* C15: a step of the control listener changes no shared state but the
\* restart flag: the file cursor, leftover, the capture state, the capture
\* buffer, the cooldown timestamp, the position of the main loop and what it
\* printed are as they were.
C15_ListenerFrame ==
    [][ListenerStep =>
          /\ reader'.f = reader.f
          /\ reader'.leftover = reader.leftover
          /\ UNCHANGED <<file_size, speech_processor, main_pc, out, obs>>]_vars

\* C15 witness: a restart is requested while an utterance is being captured
\* after an earlier one was transcribed.
C15_Witness ==
    /\ reader.restart_requested
    /\ main_pc = "read_frame"
    /\ speech_processor.state = LISTENING_FOR_SPEECH
    /\ speech_processor.audio_buffer.len > 0
    /\ speech_processor.last_transcription_time # None

\* A whole frame of the file is waiting for the main loop.
FrameReady ==
    /\ main_pc = "read_frame"
    /\ ~reader.restart_requested
    /\ reader.f - BLen(reader.leftover) + FRAME_BYTES <= file_size

\* C16 (SpecControl): at the end of input of the control channel the listener
\* ends, prints no event and leaves the main loop as it was, and the main loop
\* still takes the frames that are ready; a read fault of the control channel
\* leaves the listener reading, and a RESTART line after it raises the flag.
C16_ListenerEnd ==
    /\ [](obs.step = "eof" => stdin_pc = "done")
    /\ [](obs.step = "stdin_error" => stdin_pc = "readline")
    /\ []((stdin_pc = "done" /\ FrameReady) => ENABLED TailFrame)
    /\ [][(obs'.step \in {"eof", "stdin_error"} /\ UNCHANGED file_size)
            => UNCHANGED <<reader, speech_processor, main_pc, out>>]_vars
    /\ [][(obs.step = "stdin_error" /\ ControlStep /\ IsTokenLine(Val(obs'.line)))
            => reader'.restart_requested]_vars

\* C16 witness: the main loop ran its body on a frame after the listener had
\* ended at the end of input.
C16_Witness ==
    /\ stdin_pc = "done"
    /\ obs.step = "frame"
    /\ hist.frames = 1
    /\ main_pc = "read_frame"

\* The processor ran on a command.
Ran == obs.step = "command"
Result == Val(obs.result)
Command == Val(obs.command)

\* The ieee_address of each command of the result, in order.
Targets(result) == [i \in DOMAIN result.commands |-> result.commands[i].ieee_address]

\* C17: a command that names a device or a zone that does not exist fails,
\* even when its text contains a valid command phrase.
C17_AsStated == (Ran /\ Command.names = "unknown") => ~Result.success


\* The devices of the category a command names, within the zone it names.
Named(self, cmd) ==
    {self.devices[i].ieee_address : i \in
        {i \in DOMAIN self.devices :
            /\ \E k \in DOMAIN category_keys(self.devices[i]) :
                  category_keys(self.devices[i])[k] = cmd.category
            /\ cmd.zone # None =>
                  \E k \in DOMAIN zone_keys(self.devices[i]) :
                      zone_keys(self.devices[i])[k] = Val(cmd.zone)}}

\* C18: a command that names a category, with or without a zone, and no
\* device yields one command for each device of the category (within the
\* zone) and for no other device, also when the name of a device is a
\* substring of the category word.
C18_AsStated ==
    (Ran /\ Command.names = "category" /\ Named(obs.self, Command) # {})
        => /\ Result.success
           /\ {Targets(Result)[i] : i \in DOMAIN Result.commands} = Named(obs.self, Command)
           /\ Len(Result.commands) = Cardinality(Named(obs.self, Command))

\* C19: a command whose text contains the full name of a loaded device yields
\* commands for that device only, in whatever order the devices are loaded
\* and also when the name of another device is a substring of the name.
C19_AsStated ==
    (Ran /\ Command.names = "device"
         /\ \E i \in DOMAIN obs.self.devices :
               obs.self.devices[i].ieee_address = Command.device)
        => (Result.success /\ Targets(Result) = <<Command.device>>)

\* Texts that differ from the given one in letter case, in repeated and
\* surrounding whitespace, and in filler words only.
widen(s) == flatten([i \in DOMAIN s |-> IF s[i] = " " THEN <<" ", "\t", " ">> ELSE <<s[i]>>])
with_fillers(s) ==
    join(<<<<"c", "o", "u", "l", "d">>, <<"y", "o", "u">>>> \o flatten([i \in DOMAIN split(s) |-> <<split(s)[i], <<"t", "h", "e">>, <<"a", "l", "l">>>>])
         \o <<<<"p", "l", "e", "a", "s", "e">>, <<"c", "a", "n">>, <<"w", "o", "u", "l", "d">>>>)
Variants(text) ==
    {upper(text), <<" ", " ">> \o widen(text) \o <<" ", "\n">>, with_fillers(text),
     upper(<<"\t">> \o widen(with_fillers(text)))}

\* C20: process_command gives the same success flag and the same commands for
\* texts that differ in letter case, in repeated or surrounding whitespace and
\* in the filler words only, and normalize_text is idempotent.
C20_Insensitive ==
    Ran => \A v \in Variants(Command.text) \cup {Command.text} :
              /\ process_command(obs.self, v).success = Result.success
              /\ process_command(obs.self, v).commands = Result.commands
              /\ normalize_text(v) = normalize_text(Command.text)
              /\ normalize_text(normalize_text(v)) = normalize_text(v)

\* C20 witness: a command in capitals succeeded.
C20_Witness ==
    /\ Ran /\ Result.success
    /\ Command.text # <<>> /\ Command.text = upper(Command.text)
    /\ Command.text # lower(Command.text)


\* An end-of-utterance action ran on a non-empty buffer in the last step.
EndOfUtterance == obs.step = "frame" /\ obs.transcribed # "none"

\* C21: right after an end-of-utterance action on a non-empty buffer, whether
\* the transcription succeeded or failed, silence_start_time is None and
\* recent_features is empty.
C21_AsStated ==
    EndOfUtterance
        => /\ speech_processor.silence_start_time = None
           /\ speech_processor.recent_features = Attr(0)


\* The positions in out of the result event and of the cooldown info.
ResultAt == {i \in DOMAIN out : out[i].type \in {"transcription", "error"}}
CooldownAt == {i \in DOMAIN out : out[i] = CooldownInfo}

\* C22 as stated: the result event is written before the cooldown info.
C22_AsStated ==
    EndOfUtterance
        => /\ Cardinality(ResultAt) = 1 /\ Cardinality(CooldownAt) = 1
           /\ \A i \in ResultAt, j \in CooldownAt : i < j

\* C22: an end-of-utterance action on a non-empty buffer writes exactly one
\* result event (transcription or error) and exactly one cooldown info event,
\* the cooldown info first and the result right after it, as the last event
\* of the step.
C22_CooldownThenResult ==
    EndOfUtterance
        => /\ Cardinality(ResultAt) = 1 /\ Cardinality(CooldownAt) = 1
           /\ Count(out, "info") = 1
           /\ ResultAt = {Len(out)} /\ CooldownAt = {Len(out) - 1}
           /\ out[Len(out)].type = (IF obs.transcribed = "ok" THEN "transcription" ELSE "error")

\* C22 witness: the engine raised at the end of an utterance ended by silence.
C22_Witness ==
    /\ EndOfUtterance /\ obs.transcribed = "raise"
    /\ Has(out, "silence_detected")
    /\ out[Len(out)].type = "error" /\ out[Len(out) - 1] = CooldownInfo


\* The labels of the scores that meet the threshold.
AtThreshold(scores) == {i \in DOMAIN scores : scores[i].score >= threshold}

\* C23: when several labels meet the threshold on one frame, the step writes
\* exactly one listening_start and exactly one wakeword event, the wakeword
\* event carries the first such label in the order of the scores, the model
\* was called once, and the state is LISTENING_FOR_SPEECH with an empty buffer.
C23_FirstLabelOnly ==
    (obs.step = "frame" /\ obs.evaluated /\ Cardinality(AtThreshold(obs.scores)) >= 2)
        => /\ Count(out, "listening_start") = 1
           /\ Count(out, "wakeword") = 1
           /\ out[Len(out)].type = "wakeword"
           /\ \A i \in AtThreshold(obs.scores) :
                 \E k \in AtThreshold(obs.scores) :
                     k <= i /\ out[Len(out)].label = obs.scores[k].label
                            /\ out[Len(out)].score = obs.scores[k].score
           /\ obs.predicted = 1
           /\ speech_processor.state = LISTENING_FOR_SPEECH
           /\ speech_processor.audio_buffer.len = 0

\* C23 witness: both labels met the threshold, the second with the higher
\* score, and the first was reported.
C23_Witness ==
    /\ obs.step = "frame" /\ obs.evaluated
    /\ Cardinality(AtThreshold(obs.scores)) = 2
    /\ obs.scores[1].score < obs.scores[2].score
    /\ Has(out, "wakeword") /\ out[Len(out)].label = Labels[1]


\* C24: PROCESSING_SPEECH is never the state between two steps of the main
\* loop: whenever a frame is pulled the state is WAKE_WORD_DETECTION or
\* LISTENING_FOR_SPEECH, and after an end-of-utterance action, also one whose
\* transcription raised, it is WAKE_WORD_DETECTION.
C24_ProcessingTransient ==
    /\ speech_processor.state \in {WAKE_WORD_DETECTION, LISTENING_FOR_SPEECH}
    /\ speech_processor.state # PROCESSING_SPEECH
    /\ obs.invoked => speech_processor.state = WAKE_WORD_DETECTION

\* C24 witness: a frame came in while listening, the engine raised on the
\* buffer, and the state the next frame finds is WAKE_WORD_DETECTION.
C24_Witness ==
    /\ obs.step = "frame" /\ obs.listening /\ obs.invoked
    /\ obs.transcribed = "raise"
    /\ speech_processor.state = WAKE_WORD_DETECTION
    /\ speech_processor.last_transcription_time # None


\* C25: between two steps of the main loop, the state WAKE_WORD_DETECTION
\* implies an empty audio_buffer; a step grows the buffer only when its frame
\* came in while the state was LISTENING_FOR_SPEECH, and a step that leaves
\* that state leaves the buffer empty.
C25_WakeBufferEmpty ==
    /\ speech_processor.state = WAKE_WORD_DETECTION => speech_processor.audio_buffer = deque
    /\ (obs.step = "frame" /\ ~obs.listening)
          => speech_processor.audio_buffer.len <= obs.len_before
    /\ (obs.step = "frame" /\ obs.listening /\ speech_processor.state # LISTENING_FOR_SPEECH)
          => speech_processor.audio_buffer = deque

\* C25 witness: the buffer held frames when the utterance ended, and it is
\* empty in WAKE_WORD_DETECTION after the step.
C25_Witness ==
    /\ obs.step = "frame" /\ obs.listening /\ obs.len_before > 0
    /\ obs.transcribed = "ok"
    /\ speech_processor.state = WAKE_WORD_DETECTION
    /\ speech_processor.audio_buffer.len = 0


\* C26: in LISTENING_FOR_SPEECH a frame that is not silent leaves
\* silence_start_time None and, when the session goes on, last_speech_time at
\* the current time; the first silent frame of a run never ends the utterance
\* by silence_detected and, when the session goes on, only records the current
\* time as the start of the silence; silence_detected is printed only on a
\* silent frame that continues a run of silent frames whose first frame was
\* processed more than SILENCE_TIMEOUT_MS earlier, so no frame processed
\* within the last SILENCE_TIMEOUT_MS was non-silent.
C26_UninterruptedSilence ==
    /\ (obs.step = "frame" /\ obs.listening /\ ~obs.is_silent)
          => /\ speech_processor.silence_start_time = None
             /\ ~Has(out, "silence_detected")
             /\ hist.run_start = None
             /\ ~obs.invoked => speech_processor.last_speech_time = Some(time)
    /\ (SilentFrame /\ obs.run = None)
          => /\ ~Has(out, "silence_detected")
             /\ ~obs.invoked => /\ speech_processor.silence_start_time = Some(time)
                                /\ speech_processor.state = LISTENING_FOR_SPEECH
    /\ (obs.step = "frame" /\ Has(out, "silence_detected"))
          => /\ SilentFrame /\ obs.run # None /\ ~obs.broke
             /\ Elapsed > SILENCE_TIMEOUT_MS
    /\ (obs.step = "frame" /\ obs.listening /\ ~obs.invoked)
          => speech_processor.silence_start_time = hist.run_start

\* C26 witness: a frame that is not silent interrupted a run of silent frames
\* and cleared the start of the silence; the session goes on.
C26_Witness ==
    /\ obs.step = "frame" /\ obs.listening /\ obs.broke
    /\ speech_processor.state = LISTENING_FOR_SPEECH
    /\ speech_processor.silence_start_time = None
    /\ speech_processor.last_speech_time = Some(time)


\* The features of the last min(n, 50) frames of the session, the frame just
\* judged last.
Window ==
    LET m == Min(obs.n, FEATURES_MAXLEN)
    IN [i \in 1 .. m |-> FeaturesOf(obs.recording, obs.n - m + i)]

\* 4 * m times the mean energy of the window, 2 * m times its mean
\* zero-crossing rate (m the number of its samples).
MeanRms4m == 4 * SumRms(Window)
MeanZcr2m == 2 * SumZcr(Window)

\* C27: the feature history holds the last min(n, 50) frames of the session,
\* the current one included; with 10 or fewer samples in it the frame is silent
\* iff its energy is below 0.02; with more than 10 the frame is silent iff its
\* energy is below max(0.25 x mean energy, 0.01) and its zero-crossing rate is
\* below 1.5 x mean zero-crossing rate.
C27_SilenceVerdict ==
    obs.step = "features" =>
        LET m == Len(Window)
            f == Val(obs.features)
        IN /\ obs.recent_features = Window
           /\ Len(obs.recent_features) <= FEATURES_MAXLEN
           /\ obs.recent_features[Len(obs.recent_features)] = f
           /\ m <= 10 => (obs.is_silent <=> f.rms < 20)
           /\ m > 10 =>
                 (obs.is_silent <=>
                    /\ \/ 16 * m * f.rms < MeanRms4m       \* rms < 0.25 x mean
                       \/ f.rms < 10                         \* rms < 0.01
                    /\ 4 * m * f.zcr < 3 * MeanZcr2m)       \* zcr < 1.5 x mean

\* C27 witness: the history is full and has evicted frames, and a frame whose
\* energy is above the default threshold is silent by the adaptive one.
C27_Witness ==
    /\ obs.step = "features" /\ obs.n > FEATURES_MAXLEN
    /\ Len(obs.recent_features) = FEATURES_MAXLEN
    /\ Val(obs.features).rms > 20
    /\ obs.is_silent


\* C28 as stated: on every frame after whose add_audio_frame the state is
\* WAKE_WORD_DETECTION (the frame that ended an utterance included), predict is
\* called exactly once, the cooldown active or not.
C28_AsStated ==
    (obs.step = "frame" /\ DetectionAfterAdd) => obs.predicted = 1


\* A whole frame of bytes lies in the file beyond what the reader has taken
\* into frames.
FrameAppended == reader.f - BLen(reader.leftover) + FRAME_BYTES <= file_size

\* The control listener raises the restart flag.
RestartRaised == reader'.restart_requested /\ ~reader.restart_requested

\* The frames the file holds are consumed: every frame that is appended is
\* eventually yielded, none stays in the file for ever.
Delivery == [](FrameAppended => <>(~FrameAppended /\ obs.step = "frame"))

\* C29 as stated (SpecLive): when the restart flag is raised only finitely
\* often, every whole frame the writer appends beyond the reader's cursor is
\* eventually yielded by tail_wav_bytes under fair scheduling of the main loop.
C29_AsStated == (<>[][~RestartRaised]_vars) => Delivery

\* What the frame source does deliver (SpecLive): the same, in the runs in
\* which no read of the file raises.
C29_NoReadFault == ((<>[][~RestartRaised]_vars) /\ [](main_pc # "dead")) => Delivery


\* The number, in its listening session, of the frame of the last step: the
\* buffer is emptied when the session starts and takes every frame of it.
SessionFrame == obs.len_before + 1

\* C30: a frame of a listening session prints an audio_debug event, and only
\* one, exactly when it is the 12th, 24th, 36th, ... frame of its session,
\* in the first session and in every later one; a frame that comes in while
\* the state is WAKE_WORD_DETECTION prints none, and no other step does; at the
\* end of a session the counter is back at zero.
C30_DebugCadence ==
    /\ (obs.step = "frame" /\ obs.listening)
          => /\ Has(out, "audio_debug") <=> (SessionFrame % 12 = 0)
             /\ Count(out, "audio_debug") <= 1
             /\ Has(out, "audio_debug") => out[1].type = "audio_debug"
    /\ (obs.step = "frame" /\ ~obs.listening) => ~Has(out, "audio_debug")
    /\ obs.step \in {"init", "restart", "open_file", "restarted", "empty", "short", "read_error"}
          => ~Has(out, "audio_debug")
    /\ (speech_processor.state = WAKE_WORD_DETECTION
          /\ speech_processor.last_transcription_time # None)
          => speech_processor.debug_counter = Attr(0)
    /\ speech_processor.state = LISTENING_FOR_SPEECH
          => speech_processor.debug_counter
                \in {Absent, Attr(speech_processor.audio_buffer.len)}

\* C30 witness: the 12th frame of a session that is not the first prints the
\* event and the session goes on.
C30_Witness ==
    /\ obs.step = "frame" /\ obs.listening /\ ~obs.invoked
    /\ SessionFrame = 12
    /\ obs.since_eou # None
    /\ out = <<Event("audio_debug")>>


\* The trigger events of the end of an utterance among the events of the step.
TriggerAt == {i \in DOMAIN out : out[i].type \in {"silence_detected", "max_buffer_reached"}}

\* The last step took the state out of LISTENING_FOR_SPEECH.
SessionEnded ==
    obs.step = "frame" /\ obs.listening /\ speech_processor.state # LISTENING_FOR_SPEECH

\* C31: a listening session ends only in a step that invokes the
\* end-of-utterance action, and such a step prints exactly one trigger event,
\* silence_detected or max_buffer_reached and never both, and after it exactly
\* one transcription or error event; the action always finds the buffer
\* non-empty (the frame of the step is in it), so its empty-buffer branch is
\* never taken; no other step prints a trigger or a result event.
C31_OneTriggerOneResult ==
    /\ SessionEnded <=> obs.invoked
    /\ obs.invoked
          => /\ obs.step = "frame" /\ obs.listening
             /\ obs.transcribed \in TranscribeOutcomes
             /\ Cardinality(TriggerAt) = 1
             /\ Count(out, "silence_detected") + Count(out, "max_buffer_reached") = 1
             /\ Cardinality(ResultAt) = 1
             /\ \A i \in TriggerAt, j \in ResultAt : i < j
             /\ Has(out, "silence_detected") => obs.is_silent
    /\ ~obs.invoked => (TriggerAt = {} /\ ResultAt = {})

\* C31 witness: a silent frame that times the silence out also fills the
\* buffer to the limit; only silence_detected is printed, and the result after.
C31_Witness ==
    /\ obs.invoked /\ obs.is_silent
    /\ obs.len_before + 1 >= maxlen - 10
    /\ Has(out, "silence_detected") /\ ~Has(out, "max_buffer_reached")
    /\ Cardinality(ResultAt) = 1


\* The step is one of the three steps in which read_frame handles a restart:
\* the flag seen, the file reopened, the flag reset.
RestartHandling ==
    \/ main_pc = "read_frame" /\ main_pc' = "open_file"
    \/ main_pc = "open_file" /\ main_pc' = "reset"
    \/ main_pc = "reset" /\ main_pc' = "read_frame"

\* C32: a step of read_frame that handles a restart changes the reader and
\* nothing of the capture: state, audio_buffer, silence_start_time, feature
\* history and last_transcription_time are as they were, and at the end of
\* the handling the cursor is at WAV_HEADER, leftover empty and the flag down;
\* the first frame read after a restart made during an utterance is appended
\* to the buffer that holds the frames read before the restart.
C32_RestartKeepsCapture ==
    /\ [][RestartHandling
            => /\ UNCHANGED <<speech_processor, file_size, stdin_pc>>
               /\ hist'.run_start = hist.run_start /\ hist'.eou_at = hist.eou_at
               /\ main_pc' = "read_frame"
                     => (reader'.f = WAV_HEADER /\ reader'.leftover = <<>>
                         /\ ~reader'.restart_requested
                         /\ out' = <<RestartInfo, ResumeEvent>>)]_vars
    /\ []((obs.step = "frame" /\ obs.fresh = "restart" /\ obs.listening /\ ~obs.invoked)
             => /\ speech_processor.state = LISTENING_FOR_SPEECH
                /\ speech_processor.audio_buffer.len = obs.len_before + 1)

\* C32 witness: the buffer holds frames read before a restart and the first
\* frame read after it, and the utterance goes on.
C32_Witness ==
    /\ obs.step = "frame" /\ obs.fresh = "restart" /\ obs.listening /\ ~obs.invoked
    /\ obs.len_before >= 2
    /\ speech_processor.state = LISTENING_FOR_SPEECH
    /\ speech_processor.audio_buffer.len = obs.len_before + 1

\* The listening_start event of a restart was printed while the state is
\* WAKE_WORD_DETECTION: the event does not tell the state.
C32_ResumeInDetection ==
    /\ obs.step = "restarted" /\ out[Len(out)] = ResumeEvent
    /\ speech_processor.state = WAKE_WORD_DETECTION


\* The last step was a call of request_restart by the control listener.
Requested == obs.step = "line" /\ is_restart_command(Val(obs.line))

\* The last step was read_frame's call of open() on the audio file.
Reopened == obs.step = "open_file"

\* C33 as stated (SpecRestartRace): while the main loop keeps calling
\* read_frame, every call of request_restart is followed by a reopen of the
\* file that begins after the call, wherever in read_frame the main loop is
\* when the call is made.
C33_AsStated == ([](main_pc # "dead")) => [](Requested => <>Reopened)

\* What the reader does guarantee (SpecRestartRace): the same for the calls
\* that do not land between the open() of open_file and its reset of the flag.
C33_OutsideReset ==
    ([](main_pc # "dead")) => []((Requested /\ main_pc # "reset") => <>Reopened)

====
